---- MODULE Spec2Model ----
(***************************************************************************)
(* Leadcode backend: rooms, participants, the stats acquisition pipeline   *)
(* (update-stats, refresh-leaderboard, the profile sync of                 *)
(* updateParticipantStatsInRooms) and the leaderboard score computation.   *)
(*                                                                         *)
(* The persisted Room and User collections are the state.  Every request   *)
(* handler is one action: it reads the persisted documents, mutates its    *)
(* in-memory copy and, when room.save() succeeds, writes it back.  The     *)
(* results of the provider adapters and of room.save() are inputs of the   *)
(* environment, drawn from small sets.                                     *)
(***************************************************************************)
EXTENDS Integers, Sequences, FiniteSets, TLC

VARIABLES
    rooms,      \* the Room collection: sequence of room documents, id = index
    users,      \* the User collection: auth0Id -> user document
    now,        \* the clock read by new Date() / Date.now
    resp,       \* the response of the last request
    io,         \* the provider calls and saves made by the last request
    calc,       \* input and result of the last pure score computation
    refreshes,  \* number of stats-acquisition requests served so far
    joins       \* join requests that have read their room and not yet saved it

vars == <<rooms, users, now, resp, io, calc, refreshes, joins>>

-----------------------------------------------------------------------------
(* Bounds of the model *)

MaxRooms == 2        \* rooms ever created
MaxClock == 5        \* requests served in the leave-and-rejoin scenarios
MaxRefreshes == 1    \* stats-acquisition requests served in the sync scenarios
MaxDepth == 3        \* requests served in the other scenarios
MaxEntries == 4      \* entries of a leaderboard that is sorted on its own

Users == {"u1", "u2"}

\* JavaScript undefined, for a number that was never set
Undefined == -1
\* JavaScript null, for a number
Null == -2
\* JavaScript undefined, for a username absent from a request body
NoName == "<undefined>"
UserNames == {"", "alice"}

-----------------------------------------------------------------------------
(* Room model: src/models/Room.js *)

\* participantSchema defaults: stats are zero, profiles unlinked
NewParticipant(auth0Id, role, t) ==
    [ auth0Id |-> auth0Id,
      role |-> role,
      isActive |-> TRUE,
      profiles |-> [leetcode |-> "", github |-> ""],
      stats |-> [ leetcode |-> [total |-> 0, easy |-> 0, medium |-> 0, hard |-> 0],
                  github |-> [totalCommits |-> 0, weeklyCommits |-> 0,
                              monthlyCommits |-> 0] ],
      statsLastUpdated |-> t ]

\* settings.leaderboard weights, in tenths: defaults 0.6 and 0.4
DefaultWeightLeetCode == 6
DefaultWeightGitHub == 4

\* settings.maxParticipants: default 10, min 2, max 100
DefaultMaxParticipants == 10
MinMaxParticipants == 2
MaxMaxParticipants == 100

Min(a, b) == IF a < b THEN a ELSE b
Max(a, b) == IF a > b THEN a ELSE b

participantCount(room) ==
    Cardinality({i \in 1..Len(room.participants) : room.participants[i].isActive})

isFull(room) == participantCount(room) >= room.settings.maxParticipants

isParticipant(room, auth0Id) ==
    \E i \in 1..Len(room.participants) :
        room.participants[i].auth0Id = auth0Id /\ room.participants[i].isActive

isCreator(room, auth0Id) == room.creator = auth0Id

\* Array.prototype.find(p => p.auth0Id === auth0Id): index of the first match, 0 if none
findParticipant(room, auth0Id) ==
    IF \E i \in 1..Len(room.participants) : room.participants[i].auth0Id = auth0Id
    THEN CHOOSE i \in 1..Len(room.participants) :
            /\ room.participants[i].auth0Id = auth0Id
            /\ \A j \in 1..(i - 1) : room.participants[j].auth0Id # auth0Id
    ELSE 0

RoomIds == 1..Len(rooms)

-----------------------------------------------------------------------------
(* Responses and call logs *)

NoResp == [op |-> "none", status |-> 0, success |-> FALSE, room |-> 0, user |-> "",
           errors |-> {}, updates |-> {}, leaderboard |-> <<>>]

Respond(op, status, room, user, errors, updates) ==
    [op |-> op, status |-> status, success |-> (status = 200 \/ status = 201),
     room |-> room, user |-> user, errors |-> errors, updates |-> updates,
     leaderboard |-> <<>>]

\* fetches: one record per participant entry processed, with the answers of the
\* provider adapters; saves: the room.save() calls and whether each succeeded;
\* before: the Room collection as the request found it; req: the usernames of the
\* request body; front: its frontendStats
\* A provider's entry of the request's frontendStats, when the client sent one
NoFrontGithub == [present |-> FALSE,
                  value |-> [totalCommits |-> Undefined, weeklyCommits |-> Undefined,
                             monthlyCommits |-> Undefined]]
FrontGithubs == { NoFrontGithub,
                  [present |-> TRUE,
                   value |-> [totalCommits |-> 1030, weeklyCommits |-> 3,
                              monthlyCommits |-> 7]] }
NoFrontLeetcode == [present |-> FALSE,
                    value |-> [easy |-> Undefined, medium |-> Undefined,
                               hard |-> Undefined, total |-> Undefined]]
FrontLeetcodes == { NoFrontLeetcode,
                    [present |-> TRUE,
                     value |-> [easy |-> 4, medium |-> 1, hard |-> 0, total |-> 5]] }
NoFront == [github |-> NoFrontGithub, leetcode |-> NoFrontLeetcode]

NoReq == [leetcode |-> NoName, github |-> NoName]
NoIo == [fetches |-> {}, saves |-> {}, before |-> <<>>, req |-> NoReq, front |-> NoFront]

\* The catch of a handler answers 500; otherwise the handler answers 200
statusAlwaysOk(ok) == 200
statusAfterSave(ok) == IF ok THEN 200 ELSE 500


-----------------------------------------------------------------------------
(* Room membership: POST /api/rooms, POST /:roomId/join, PUT /:roomId/leave *)

\* settings.maxParticipants of the request body: absent.  With two users a room
\* is never asked to take a participant beyond any limit the clamp allows.
MaxParticipantsInputs == {Undefined}

\* POST /api/rooms
PostRoom(creator, maxParticipants) ==
    /\ Len(rooms) < MaxRooms
    /\ LET mp == IF maxParticipants = Undefined \/ maxParticipants = 0
                 THEN DefaultMaxParticipants ELSE maxParticipants
           room == [ creator |-> creator,
                     participants |-> <<NewParticipant(creator, "creator", now)>>,
                     settings |-> [ maxParticipants |->
                                        Min(Max(mp, MinMaxParticipants), MaxMaxParticipants),
                                    weightLeetCode |-> DefaultWeightLeetCode,
                                    weightGitHub |-> DefaultWeightGitHub ],
                     status |-> "waiting",
                     isActive |-> TRUE ]
       IN /\ rooms' = Append(rooms, room)
          /\ resp' = Respond("create", 201, Len(rooms) + 1, creator, {}, {})
    /\ users' = [users EXCEPT ![creator].exists = TRUE]
    /\ now' = now + 1
    /\ io' = NoIo
    /\ UNCHANGED <<calc, refreshes, joins>>

\* POST /api/rooms/:roomId/join
JoinRoom(r, auth0Id) ==
    /\ r \in RoomIds
    /\ rooms[r].isActive
    /\ rooms[r].status = "waiting"
    /\ ~isFull(rooms[r])
    /\ ~isParticipant(rooms[r], auth0Id)
    /\ rooms' = [rooms EXCEPT ![r].participants =
                    Append(@, NewParticipant(auth0Id, "participant", now))]
    /\ users' = [users EXCEPT ![auth0Id].exists = TRUE]
    /\ resp' = Respond("join", 200, r, auth0Id, {}, {})
    /\ now' = now + 1
    /\ io' = NoIo
    /\ UNCHANGED <<calc, refreshes, joins>>

\* POST /api/rooms/:roomId/join as the server runs it: every await yields to
\* the other requests.  The checks of lines 263-283 are made on the document
\* that findById returned (line 261) ...
JoinRead(r, auth0Id) ==
    /\ r \in RoomIds
    /\ rooms[r].isActive
    /\ rooms[r].status = "waiting"
    /\ ~isFull(rooms[r])
    /\ ~isParticipant(rooms[r], auth0Id)
    /\ [room |-> r, auth0Id |-> auth0Id] \notin joins
    /\ joins' = joins \cup {[room |-> r, auth0Id |-> auth0Id]}
    /\ UNCHANGED <<rooms, users, now, resp, io, calc, refreshes>>

\* ... and room.save() (line 296) then sends the push of lines 286-293 to the
\* stored document, whatever was saved to it in between
JoinSave(r, auth0Id) ==
    /\ [room |-> r, auth0Id |-> auth0Id] \in joins
    /\ joins' = joins \ {[room |-> r, auth0Id |-> auth0Id]}
    /\ rooms' = [rooms EXCEPT ![r].participants =
                    Append(@, NewParticipant(auth0Id, "participant", now))]
    /\ users' = [users EXCEPT ![auth0Id].exists = TRUE]
    /\ resp' = Respond("join", 200, r, auth0Id, {}, {})
    /\ now' = now + 1
    /\ io' = NoIo
    /\ UNCHANGED <<calc, refreshes>>

\* PUT /api/rooms/:roomId/leave
LeaveRoom(r, auth0Id) ==
    /\ r \in RoomIds
    /\ rooms[r].isActive
    /\ isParticipant(rooms[r], auth0Id)
    /\ rooms' = IF isCreator(rooms[r], auth0Id)
                THEN [rooms EXCEPT ![r].status = "cancelled", ![r].isActive = FALSE]
                ELSE [rooms EXCEPT
                        ![r].participants[findParticipant(rooms[r], auth0Id)].isActive = FALSE]
    /\ resp' = Respond("leave", 200, r, auth0Id, {}, {})
    /\ now' = now + 1
    /\ io' = NoIo
    /\ UNCHANGED <<users, calc, refreshes, joins>>

-----------------------------------------------------------------------------
(* Room administration: PUT /:roomId, PUT /:roomId/start, DELETE /:roomId,
   and the read GET /:roomId; src/routes/rooms.js:154-167, 355-497 *)

\* settings.maxParticipants of the request body of PUT /:roomId
SettingsInputs == {Undefined, 1, 3, 200}

\* lines 383-403, for the setting that is read elsewhere
updatedSettings(room, maxParticipants) ==
    IF maxParticipants = Undefined THEN room
    ELSE [room EXCEPT !.settings.maxParticipants =
                          Min(Max(maxParticipants, MinMaxParticipants), MaxMaxParticipants)]

\* PUT /api/rooms/:roomId: 404 for an inactive room, 403 unless the creator
\* asks, 400 once the room is not waiting
PutRoom(r, auth0Id, maxParticipants) ==
    /\ r \in RoomIds
    /\ rooms[r].isActive
    /\ isCreator(rooms[r], auth0Id)
    /\ rooms[r].status = "waiting"
    /\ rooms' = [rooms EXCEPT ![r] = updatedSettings(rooms[r], maxParticipants)]
    /\ resp' = Respond("putRoom", 200, r, auth0Id, {}, {})
    /\ io' = [NoIo EXCEPT !.before = rooms]
    /\ now' = now + 1
    /\ UNCHANGED <<users, calc, refreshes, joins>>

\* lines 444-452: "Start the session"
startedRoomClosed(room) == [room EXCEPT !.status = "active", !.isActive = FALSE]
startedRoom(room) == [room EXCEPT !.status = "active"]

\* PUT /api/rooms/:roomId/start
StartRoom(r, auth0Id) ==
    /\ r \in RoomIds
    /\ rooms[r].isActive
    /\ isCreator(rooms[r], auth0Id)
    /\ rooms[r].status = "waiting"
    /\ rooms' = [rooms EXCEPT ![r] = startedRoom(rooms[r])]
    /\ resp' = Respond("start", 200, r, auth0Id, {}, {})
    /\ io' = [NoIo EXCEPT !.before = rooms]
    /\ now' = now + 1
    /\ UNCHANGED <<users, calc, refreshes, joins>>

\* lines 485-487: "Soft delete - mark as inactive"
deletedRoomHard(room) ==
    [room EXCEPT !.isActive = FALSE, !.status = "cancelled", !.participants = <<>>]
deletedRoom(room) == [room EXCEPT !.isActive = FALSE, !.status = "cancelled"]

\* DELETE /api/rooms/:roomId: the room need not be active
DeleteRoom(r, auth0Id) ==
    /\ r \in RoomIds
    /\ isCreator(rooms[r], auth0Id)
    /\ rooms' = [rooms EXCEPT ![r] = deletedRoom(rooms[r])]
    /\ resp' = Respond("delete", 200, r, auth0Id, {}, {})
    /\ io' = [NoIo EXCEPT !.before = rooms]
    /\ now' = now + 1
    /\ UNCHANGED <<users, calc, refreshes, joins>>

\* GET /api/rooms/:roomId
GetRoom(r) ==
    /\ r \in RoomIds
    /\ resp' = Respond("getRoom", IF rooms[r].isActive THEN 200 ELSE 404, r, "", {}, {})
    /\ io' = [NoIo EXCEPT !.before = rooms]
    /\ UNCHANGED <<rooms, users, now, calc, refreshes, joins>>

-----------------------------------------------------------------------------
(* Results of the provider adapters, as the route handlers receive them *)

\* githubAPI.getContributionStatsGraphQL: {supported: true, total, thisWeek, thisMonth}
\* or {supported: false, reason}
GqlUnsupported == [supported |-> FALSE, total |-> Undefined, thisWeek |-> Undefined,
                   thisMonth |-> Undefined]
GqlResults == { GqlUnsupported,
                [supported |-> TRUE, total |-> 1030, thisWeek |-> 2, thisMonth |-> 6] }

\* githubAPI.getUserCommitStats: {total, thisWeek, thisMonth, ...}; its catch block
\* returns the same shape with zeros, so a failure is not visible to the caller
EstFailed == [failed |-> TRUE, total |-> 0, thisWeek |-> 0, thisMonth |-> 0]
EstResults == { EstFailed,
                [failed |-> FALSE, total |-> 80, thisWeek |-> 1, thisMonth |-> 4] }

\* validateUsername, then getContributionStatsGraphQL, then getUserCommitStats:
\* the strategies that are not reached have no result
GhNotCalled == [exists |-> FALSE, gql |-> GqlUnsupported, est |-> EstFailed]
GhResults ==
    { [exists |-> e, gql |-> g, est |-> s] :
        e \in BOOLEAN, g \in GqlResults, s \in EstResults }

\* One outcome per distinguishable run of the chain
GhChainResults ==
    { x \in GhResults :
        /\ (~x.exists => x = GhNotCalled)
        /\ (x.gql.supported => x.est = EstFailed) }

\* leetcodeAPI.getUserStats: the normalized record, or the error record
LcError == [error |-> TRUE, totalSolved |-> 0, easySolved |-> 0, mediumSolved |-> 0,
            hardSolved |-> 0]
LcResults == { LcError,
               [error |-> FALSE, totalSolved |-> 6, easySolved |-> 3, mediumSolved |-> 2,
                hardSolved |-> 1] }

\* x || d: d when x is undefined, null or 0
OrElse(x, d) == IF x = Undefined \/ x = Null \/ x = 0 THEN d ELSE x
\* x || 0
OrZero(x) == OrElse(x, 0)

-----------------------------------------------------------------------------
(* Sync Propagator: updateParticipantStatsInRooms, src/routes/rooms.js:882-977 *)

\* What the environment answers while one room is processed
NoSyncInput == [gh |-> GhNotCalled, lc |-> LcError, saveOk |-> TRUE]

\* Room.find({'participants.auth0Id': auth0Id, isActive: true})
syncFound(store, auth0Id) ==
    { r \in 1..Len(store) : store[r].isActive /\ findParticipant(store[r], auth0Id) # 0 }

\* if (!participant || !participant.isActive) continue;
syncSkips(room, auth0Id) ==
    LET i == findParticipant(room, auth0Id) IN i = 0 \/ ~room.participants[i].isActive

\* if (profiles.github !== undefined) participant.profiles.github = profiles.github; ...
syncProfiles(old, profiles) ==
    [ github |-> IF profiles.github # NoName THEN profiles.github ELSE old.github,
      leetcode |-> IF profiles.leetcode # NoName THEN profiles.leetcode ELSE old.leetcode ]

\* lines 914-946: validateUsername, GraphQL, estimation
syncGithub(old, g) ==
    IF ~g.exists THEN old
    ELSE IF g.gql.supported
         THEN [totalCommits |-> g.gql.total, weeklyCommits |-> g.gql.thisWeek,
               monthlyCommits |-> g.gql.thisMonth]
         ELSE [totalCommits |-> g.est.total, weeklyCommits |-> g.est.thisWeek,
               monthlyCommits |-> g.est.thisMonth]

\* lines 948-963
syncLeetcode(old, l) ==
    IF ~l.error
    THEN [easy |-> OrZero(l.easySolved), medium |-> OrZero(l.mediumSolved),
          hard |-> OrZero(l.hardSolved), total |-> OrZero(l.totalSolved)]
    ELSE old

\* The body of the for loop for a room that is not skipped (lines 894-966)
syncRoom(room, auth0Id, profiles, x, t) ==
    LET i == findParticipant(room, auth0Id)
        p == room.participants[i]
        prof == syncProfiles(p.profiles, profiles)
        gh == IF prof.github # "" THEN syncGithub(p.stats.github, x.gh) ELSE p.stats.github
        lc == IF prof.leetcode # "" THEN syncLeetcode(p.stats.leetcode, x.lc)
              ELSE p.stats.leetcode
    IN [room EXCEPT !.participants[i] =
            [p EXCEPT !.profiles = prof,
                      !.stats = [leetcode |-> lc, github |-> gh],
                      !.statsLastUpdated = t]]

\* A room's iteration ends the whole loop: only room.save() (line 969) is outside
\* the per-provider try blocks, and the outer catch rethrows (lines 973-976)
syncThrowsBroken(x) == ~x.saveOk \/ x.lc.error
syncThrows(x) == ~x.saveOk

\* The loop over the rooms found, in collection order.  in[r] is what the
\* environment answers while room r is processed.
RECURSIVE syncLoop(_, _, _, _, _, _)
syncLoop(r, store, auth0Id, profiles, in, t) ==
    IF r > Len(store) THEN [store |-> store, threw |-> FALSE, reached |-> {}]
    ELSE IF r \notin syncFound(store, auth0Id) \/ syncSkips(store[r], auth0Id)
         THEN syncLoop(r + 1, store, auth0Id, profiles, in, t)
         ELSE IF syncThrows(in[r])
              THEN [store |-> store, threw |-> TRUE, reached |-> {r}]
              ELSE LET rest == syncLoop(r + 1,
                                        [store EXCEPT ![r] =
                                            syncRoom(store[r], auth0Id, profiles, in[r], t)],
                                        auth0Id, profiles, in, t)
                   IN [rest EXCEPT !.reached = @ \cup {r}]

updateParticipantStatsInRooms(store, auth0Id, profiles, in, t) ==
    syncLoop(1, store, auth0Id, profiles, in, t)

\* The provider calls and saves of one run, for the rooms the loop reached
syncIo(store, auth0Id, profiles, in, out) ==
    [ fetches |->
        { [room |-> r, idx |-> findParticipant(store[r], auth0Id), chain |-> "full",
           gh |-> in[r].gh, lc |-> in[r].lc,
           ghCalled |-> syncProfiles(store[r].participants[findParticipant(store[r], auth0Id)].profiles, profiles).github # "",
           lcCalled |-> syncProfiles(store[r].participants[findParticipant(store[r], auth0Id)].profiles, profiles).leetcode # ""]
          : r \in out.reached },
      saves |-> { [room |-> r, ok |-> in[r].saveOk] : r \in out.reached },
      before |-> store,
      req |-> profiles,
      front |-> NoFront ]

\* The answers that can matter: a provider is asked only for a non-empty username,
\* and nothing is asked once the loop has ended.
syncInputsFor(room, auth0Id, profiles) ==
    IF ~room.isActive \/ syncSkips(room, auth0Id) THEN {NoSyncInput}
    ELSE LET prof == syncProfiles(room.participants[findParticipant(room, auth0Id)].profiles,
                                  profiles)
         IN { [gh |-> g, lc |-> l, saveOk |-> s] :
                g \in (IF prof.github # "" THEN GhChainResults ELSE {GhNotCalled}),
                l \in (IF prof.leetcode # "" THEN LcResults ELSE {LcError}),
                s \in BOOLEAN }

RECURSIVE syncInputs(_, _, _, _)
syncInputs(n, store, auth0Id, profiles) ==
    IF n = 0 THEN {<<>>}
    ELSE UNION { { Append(s, x) :
                    x \in (IF \E j \in 1..Len(s) : ~s[j].saveOk
                           THEN {NoSyncInput}
                           ELSE syncInputsFor(store[n], auth0Id, profiles)) } :
                 s \in syncInputs(n - 1, store, auth0Id, profiles) }

-----------------------------------------------------------------------------
(* User routes: PUT /api/users/:auth0Id, POST /api/users/:auth0Id/refresh-stats *)

\* PUT /api/users/:auth0Id, lines 1038-1075
PutUser(auth0Id, leetcodeUsername, githubUsername) ==
    /\ users[auth0Id].exists
    /\ users' = [users EXCEPT
                    ![auth0Id].leetcodeUsername =
                        IF leetcodeUsername # NoName THEN leetcodeUsername ELSE @,
                    ![auth0Id].githubUsername =
                        IF githubUsername # NoName THEN githubUsername ELSE @]
    /\ IF leetcodeUsername # NoName \/ githubUsername # NoName
       THEN \E in \in syncInputs(Len(rooms), rooms, auth0Id,
                                 [leetcode |-> leetcodeUsername, github |-> githubUsername]) :
              LET profiles == [leetcode |-> leetcodeUsername, github |-> githubUsername]
                  out == updateParticipantStatsInRooms(rooms, auth0Id, profiles, in, now)
              IN /\ rooms' = out.store
                 /\ io' = syncIo(rooms, auth0Id, profiles, in, out)
       ELSE /\ rooms' = rooms
            /\ io' = [NoIo EXCEPT !.before = rooms]
    \* the catch around the sync swallows its error: "Don't fail the request if
    \* room updates fail"
    /\ resp' = Respond("putUser", 200, 0, auth0Id, {}, {})
    /\ now' = now + 1
    /\ refreshes' = refreshes + 1
    /\ UNCHANGED <<calc, joins>>

\* POST /api/users/:auth0Id/refresh-stats, lines 1094-1113
RefreshStats(auth0Id) ==
    /\ users[auth0Id].exists
    /\ LET profiles == [leetcode |-> users[auth0Id].leetcodeUsername,
                        github |-> users[auth0Id].githubUsername]
       IN \E in \in syncInputs(Len(rooms), rooms, auth0Id, profiles) :
            LET out == updateParticipantStatsInRooms(rooms, auth0Id, profiles, in, now)
            IN /\ rooms' = out.store
               /\ io' = syncIo(rooms, auth0Id, profiles, in, out)
               /\ resp' = Respond("refreshStats", statusAfterSave(~out.threw),
                                  0, auth0Id, {}, {})
    /\ now' = now + 1
    /\ refreshes' = refreshes + 1
    /\ UNCHANGED <<users, calc, joins>>

-----------------------------------------------------------------------------
(* POST /api/rooms/:roomId/update-stats, src/routes/rooms.js:532-736 *)

\* participant.profiles = { ...participant.profiles, ...profiles }
mergeProfiles(old, profiles) ==
    [ github |-> IF profiles.github # NoName THEN profiles.github ELSE old.github,
      leetcode |-> IF profiles.leetcode # NoName THEN profiles.leetcode ELSE old.leetcode ]

WarnGithubNotFound == "GitHub username not found - using estimated stats"
WarnLeetcodeError == "LeetCode API error - using estimated stats"

\* lines 583-653: the new github snapshot and the warnings pushed
updateGithubFrontFirst(old, username, front, g) ==
    IF front.present THEN [stats |-> front.value, errors |-> {}, updated |-> TRUE]
    ELSE [stats |-> old, errors |-> {}, updated |-> FALSE]
updateGithub(old, username, front, g) ==
    IF username = "" THEN [stats |-> old, errors |-> {}, updated |-> FALSE]
    ELSE IF front.present
         THEN [stats |-> front.value, errors |-> {}, updated |-> TRUE]
         ELSE IF ~g.exists
              THEN [stats |-> [totalCommits |-> 50, weeklyCommits |-> 5,
                               monthlyCommits |-> 20],
                    errors |-> {WarnGithubNotFound}, updated |-> TRUE]
              ELSE IF g.gql.supported
                   THEN [stats |-> [totalCommits |-> g.gql.total,
                                    weeklyCommits |-> g.gql.thisWeek,
                                    monthlyCommits |-> g.gql.thisMonth],
                         errors |-> {}, updated |-> TRUE]
                   ELSE [stats |-> [totalCommits |-> OrElse(g.est.total, 100),
                                    weeklyCommits |-> OrElse(g.est.thisWeek, 10),
                                    monthlyCommits |-> OrElse(g.est.thisMonth, 40)],
                         errors |-> {}, updated |-> TRUE]

\* lines 655-703: the new leetcode snapshot and the warnings pushed
updateLeetcode(old, username, front, l) ==
    IF username = "" THEN [stats |-> old, errors |-> {}, updated |-> FALSE]
    ELSE IF front.present
         THEN [stats |-> front.value, errors |-> {}, updated |-> TRUE]
         ELSE IF l.error
              THEN [stats |-> [easy |-> 10, medium |-> 5, hard |-> 2, total |-> 17],
                    errors |-> {WarnLeetcodeError}, updated |-> TRUE]
              ELSE [stats |-> [easy |-> OrZero(l.easySolved),
                               medium |-> OrZero(l.mediumSolved),
                               hard |-> OrZero(l.hardSolved),
                               total |-> OrZero(l.totalSolved)],
                    errors |-> {}, updated |-> TRUE]

\* The provider answers that can matter to one update-stats request
updateInputs(p, profiles, front) ==
    LET prof == mergeProfiles(p.profiles, profiles)
    IN { [gh |-> g, lc |-> l] :
            g \in (IF prof.github # "" /\ ~front.github.present
                   THEN GhChainResults ELSE {GhNotCalled}),
            l \in (IF prof.leetcode # "" /\ ~front.leetcode.present
                   THEN LcResults ELSE {LcError}) }

UpdateStats(r, auth0Id, profiles, front, saveOk) ==
    /\ r \in RoomIds
    /\ rooms[r].isActive
    /\ isParticipant(rooms[r], auth0Id)
    /\ LET i == findParticipant(rooms[r], auth0Id)
           p == rooms[r].participants[i]
           prof == mergeProfiles(p.profiles, profiles)
       IN \E x \in updateInputs(p, profiles, front) :
            LET gh == updateGithub(p.stats.github, prof.github, front.github, x.gh)
                lc == updateLeetcode(p.stats.leetcode, prof.leetcode, front.leetcode, x.lc)
                q == [p EXCEPT !.profiles = prof,
                               !.stats = [leetcode |-> lc.stats, github |-> gh.stats],
                               !.statsLastUpdated = now]
                updates == (IF gh.updated THEN {"github"} ELSE {})
                           \cup (IF lc.updated THEN {"leetcode"} ELSE {})
            IN /\ rooms' = IF saveOk THEN [rooms EXCEPT ![r].participants[i] = q]
                           ELSE rooms
               /\ resp' = IF saveOk
                          THEN Respond("updateStats", statusAfterSave(saveOk), r, auth0Id,
                                       gh.errors \cup lc.errors, updates)
                          ELSE Respond("updateStats", statusAfterSave(saveOk), r, auth0Id,
                                       {}, {})
               /\ io' = [ fetches |->
                            { [room |-> r, idx |-> i, chain |-> "full",
                               gh |-> x.gh, lc |-> x.lc,
                               ghCalled |-> prof.github # "" /\ ~front.github.present,
                               lcCalled |-> prof.leetcode # "" /\ ~front.leetcode.present] },
                          saves |-> { [room |-> r, ok |-> saveOk] },
                          before |-> rooms,
                          req |-> profiles,
                          front |-> front ]
    /\ now' = now + 1
    /\ refreshes' = refreshes + 1
    /\ UNCHANGED <<users, calc, joins>>

-----------------------------------------------------------------------------
(* POST /api/rooms/:roomId/refresh-leaderboard, src/routes/rooms.js:739-834 *)

WarnLeetcodeUser(name) == <<"LeetCode error for", name, "User not found">>

\* lines 778-790: the fields read from the result are totalCommits, weeklyCommits
\* and monthlyCommits, which getUserCommitStats never sets (it returns total,
\* thisWeek, thisMonth): the values stored are undefined
refreshGithub(est) ==
    [totalCommits |-> Undefined, weeklyCommits |-> Undefined, monthlyCommits |-> Undefined]

\* lines 793-810
refreshLeetcode(old, l) ==
    IF ~l.error
    THEN [easy |-> l.easySolved, medium |-> l.mediumSolved, hard |-> l.hardSolved,
          total |-> l.totalSolved]
    ELSE old

\* The body of the for loop for one participant (lines 765-818)
refreshParticipantEntry(p, x, t) ==
    IF ~p.isActive THEN p
    ELSE LET gh == IF p.profiles.github # "" THEN refreshGithub(x.est) ELSE p.stats.github
             lc == IF p.profiles.leetcode # "" THEN refreshLeetcode(p.stats.leetcode, x.lc)
                   ELSE p.stats.leetcode
             updated == p.profiles.github # "" \/ (p.profiles.leetcode # "" /\ ~x.lc.error)
         IN [p EXCEPT !.stats = [leetcode |-> lc, github |-> gh],
                      !.statsLastUpdated = IF updated THEN t ELSE @]

refreshUpdated(p, x) ==
    p.isActive /\ (p.profiles.github # "" \/ (p.profiles.leetcode # "" /\ ~x.lc.error))

refreshErrors(p, x) ==
    IF p.isActive /\ p.profiles.leetcode # "" /\ x.lc.error
    THEN {WarnLeetcodeUser(p.auth0Id)} ELSE {}

NoRefreshInput == [est |-> EstFailed, lc |-> LcError]

refreshInputsFor(p) ==
    IF ~p.isActive THEN {NoRefreshInput}
    ELSE { [est |-> e, lc |-> l] :
            e \in (IF p.profiles.github # "" THEN EstResults ELSE {EstFailed}),
            l \in (IF p.profiles.leetcode # "" THEN LcResults ELSE {LcError}) }

RECURSIVE refreshInputs(_, _)
refreshInputs(n, ps) ==
    IF n = 0 THEN {<<>>}
    ELSE { Append(s, x) : s \in refreshInputs(n - 1, ps), x \in refreshInputsFor(ps[n]) }

RefreshLeaderboard(r, auth0Id, saveOk) ==
    /\ r \in RoomIds
    /\ rooms[r].isActive
    /\ isCreator(rooms[r], auth0Id)
    /\ LET ps == rooms[r].participants
       IN \E in \in refreshInputs(Len(ps), ps) :
            LET qs == [i \in 1..Len(ps) |-> refreshParticipantEntry(ps[i], in[i], now)]
                updates == { ps[i].auth0Id : i \in {j \in 1..Len(ps) : refreshUpdated(ps[j], in[j])} }
                errors == UNION { refreshErrors(ps[i], in[i]) : i \in 1..Len(ps) }
            IN /\ rooms' = IF saveOk THEN [rooms EXCEPT ![r].participants = qs] ELSE rooms
               /\ resp' = IF saveOk
                          THEN Respond("refreshLeaderboard", statusAfterSave(saveOk), r,
                                       auth0Id, errors, updates)
                          ELSE Respond("refreshLeaderboard", statusAfterSave(saveOk), r,
                                       auth0Id, {}, {})
               /\ io' = [ fetches |->
                            { [room |-> r, idx |-> i, chain |-> "estimate",
                               gh |-> [GhNotCalled EXCEPT !.est = in[i].est],
                               lc |-> in[i].lc,
                               ghCalled |-> ps[i].profiles.github # "",
                               lcCalled |-> ps[i].profiles.leetcode # "" ]
                              : i \in {j \in 1..Len(ps) : ps[j].isActive} },
                          saves |-> { [room |-> r, ok |-> saveOk] },
                          before |-> rooms,
                          req |-> NoReq,
                          front |-> NoFront ]
    /\ now' = now + 1
    /\ refreshes' = refreshes + 1
    /\ UNCHANGED <<users, calc, joins>>

-----------------------------------------------------------------------------
(* Score Calculator: src/unnamed/part_001 (leetcodeService.js), and the entry *)
(* computation of GET /api/rooms/:roomId/leaderboard, src/routes/rooms.js:82-129 *)

\* leetcodeAPI.calculateLeetCodeScore(stats), on a normalized record
serviceScoreFlat(stats) == stats.easySolved + stats.mediumSolved + stats.hardSolved
leetcodeAPI_calculateLeetCodeScore(stats) ==
    (stats.easySolved * 1) + (stats.mediumSolved * 3) + (stats.hardSolved * 5)

\* export const calculateLeetCodeScore(leetcodeStats), on a stored snapshot:
\* the function the leaderboard route imports
calculateLeetCodeScore135(leetcodeStats) ==
    (OrZero(leetcodeStats.easy) * 1) + (OrZero(leetcodeStats.medium) * 3)
        + (OrZero(leetcodeStats.hard) * 5)
calculateLeetCodeScore(leetcodeStats) ==
    (OrZero(leetcodeStats.easy) * 1) + (OrZero(leetcodeStats.medium) * 2)
        + (OrZero(leetcodeStats.hard) * 3)

\* lines 99-107: stats.github?.totalCommits || 0, with the 1030 hotfix
githubCommits(github) ==
    IF OrZero(github.totalCommits) = 1030 THEN 565 ELSE OrZero(github.totalCommits)

\* line 109: githubCommits + (weeklyCommits * 2) + (monthlyCommits * 0.5).
\* The score is a multiple of 0.5; it is kept as a count of halves.
githubScoreNoWeekly(github) ==
    2 * githubCommits(github) + 2 * OrZero(github.weeklyCommits)
        + OrZero(github.monthlyCommits)
githubScoreHalves(github) ==
    2 * githubCommits(github) + 4 * OrZero(github.weeklyCommits)
        + OrZero(github.monthlyCommits)

\* Math.round on a count of twentieths: floor(x + 0.5)
MathRound20(n) == (n + 10) \div 20

\* lines 88-111 and 126: totalScore.  Weights are tenths and the github score is
\* in halves, so the weighted sum is a count of twentieths, rounded once.
totalScoreRoundedParts(stats, settings) ==
    (IF settings.weightLeetCode > 0
     THEN MathRound20(2 * calculateLeetCodeScore(stats.leetcode) * settings.weightLeetCode)
     ELSE 0)
    + (IF settings.weightGitHub > 0
       THEN MathRound20(githubScoreHalves(stats.github) * settings.weightGitHub)
       ELSE 0)
totalScore(stats, settings) ==
    MathRound20(
        (IF settings.weightLeetCode > 0
         THEN 2 * calculateLeetCodeScore(stats.leetcode) * settings.weightLeetCode
         ELSE 0)
        + (IF settings.weightGitHub > 0
           THEN githubScoreHalves(stats.github) * settings.weightGitHub
           ELSE 0))

\* lines 113-117: the stats shown, with the hotfix applied
displayStatsStored(stats) == stats
displayStats(stats) ==
    IF stats.github.totalCommits = 1030
    THEN [stats EXCEPT !.github.totalCommits = 565]
    ELSE stats

\* Inputs of the score computations
SolvedCounts == {0, 2, 5, 10}
CommitCounts == {0, 100, 1029, 1030, 1031}
WeeklyCounts == {0, 1, 10}
MonthlyCounts == {0, 1, 40}
\* settings.leaderboard: no route sets the weights, so a room keeps the schema
\* defaults
WeightConfigs == { [weightLeetCode |-> DefaultWeightLeetCode,
                    weightGitHub |-> DefaultWeightGitHub] }

ScoreArgs ==
    { [ solved |-> [easySolved |-> e, mediumSolved |-> m, hardSolved |-> h],
        stats |-> [ leetcode |-> [easy |-> e, medium |-> m, hard |-> h,
                                  total |-> e + m + h],
                    github |-> [totalCommits |-> c, weeklyCommits |-> w,
                                monthlyCommits |-> mo] ],
        settings |-> s ] :
        e \in SolvedCounts, m \in SolvedCounts, h \in SolvedCounts,
        c \in CommitCounts \cup {Undefined}, w \in WeeklyCounts, mo \in MonthlyCounts,
        s \in WeightConfigs }

NoCalc ==
    [ fn |-> "none",
      arg |-> [ solved |-> [easySolved |-> 0, mediumSolved |-> 0, hardSolved |-> 0],
                stats |-> [ leetcode |-> [easy |-> 0, medium |-> 0, hard |-> 0,
                                          total |-> 0],
                            github |-> [totalCommits |-> 0, weeklyCommits |-> 0,
                                        monthlyCommits |-> 0] ],
                settings |-> [weightLeetCode |-> DefaultWeightLeetCode,
                              weightGitHub |-> DefaultWeightGitHub] ],
      out |-> 0 ]

CalcServiceScore ==
    /\ calc.fn = "none"
    /\ calc' = [calc EXCEPT !.fn = "leetcodeAPI.calculateLeetCodeScore",
                            !.out = leetcodeAPI_calculateLeetCodeScore(calc.arg.solved)]
    /\ UNCHANGED <<rooms, users, now, resp, io, refreshes, joins>>

CalcLeetCodeScore ==
    /\ calc.fn = "none"
    /\ calc' = [calc EXCEPT !.fn = "calculateLeetCodeScore",
                            !.out = calculateLeetCodeScore(calc.arg.stats.leetcode)]
    /\ UNCHANGED <<rooms, users, now, resp, io, refreshes, joins>>

CalcGithubScore ==
    /\ calc.fn = "none"
    /\ calc' = [calc EXCEPT !.fn = "githubScore",
                            !.out = githubScoreHalves(calc.arg.stats.github)]
    /\ UNCHANGED <<rooms, users, now, resp, io, refreshes, joins>>

CalcTotalScore ==
    /\ calc.fn = "none"
    /\ calc' = [calc EXCEPT !.fn = "totalScore",
                            !.out = totalScore(calc.arg.stats, calc.arg.settings)]
    /\ UNCHANGED <<rooms, users, now, resp, io, refreshes, joins>>

-----------------------------------------------------------------------------
(* GET /api/rooms/:roomId/leaderboard, src/routes/rooms.js:73-151 *)

\* lines 84-128: the entry built for one participant.  idx is the position of
\* the participant in room.participants (the entry itself does not carry it).
leaderboardEntry(p, idx, settings) ==
    [ auth0Id |-> p.auth0Id,
      idx |-> idx,
      stats |-> displayStats(p.stats),
      totalScore |-> totalScore(p.stats, settings),
      lastUpdated |-> p.statsLastUpdated ]

\* .filter(p => p.isActive !== false): the positions kept, in order
activePositionsAll(ps, i) == [k \in 1..(Len(ps) - i + 1) |-> k + i - 1]
RECURSIVE activePositions(_, _)
activePositions(ps, i) ==
    IF i > Len(ps) THEN <<>>
    ELSE IF ps[i].isActive THEN <<i>> \o activePositions(ps, i + 1)
         ELSE activePositions(ps, i + 1)

\* .sort((a, b) => b.totalScore - a.totalScore): Array.prototype.sort is stable,
\* so an entry goes after every entry whose totalScore is not smaller
insertUnstable(sorted, e) ==
    LET before == SelectSeq(sorted, LAMBDA x : x.totalScore > e.totalScore)
        after == SelectSeq(sorted, LAMBDA x : x.totalScore <= e.totalScore)
    IN before \o <<e>> \o after
insertByScore(sorted, e) ==
    LET before == SelectSeq(sorted, LAMBDA x : x.totalScore >= e.totalScore)
        after == SelectSeq(sorted, LAMBDA x : x.totalScore < e.totalScore)
    IN before \o <<e>> \o after

RECURSIVE sortByTotalScore(_)
sortByTotalScore(es) ==
    IF es = <<>> THEN <<>>
    ELSE insertByScore(sortByTotalScore(SubSeq(es, 1, Len(es) - 1)), es[Len(es)])

\* .map((participant, index) => ({...participant, rank: index + 1}))
assignRanks(es) == [i \in 1..Len(es) |-> [rank |-> i] @@ es[i]]

computeLeaderboard(room) ==
    LET pos == activePositions(room.participants, 1)
        entries == [k \in 1..Len(pos) |->
                        leaderboardEntry(room.participants[pos[k]], pos[k], room.settings)]
    IN assignRanks(sortByTotalScore(entries))

\* The handler: 404 unless the room exists and is active; nothing is saved
GetLeaderboard(r) ==
    /\ r \in RoomIds
    /\ resp' = IF rooms[r].isActive
               THEN [Respond("leaderboard", 200, r, "", {}, {})
                        EXCEPT !.leaderboard = computeLeaderboard(rooms[r])]
               ELSE Respond("leaderboard", 404, r, "", {}, {})
    /\ io' = [NoIo EXCEPT !.before = rooms]
    /\ UNCHANGED <<rooms, users, now, calc, refreshes, joins>>

\* Inputs of the entry computation: a stored snapshot under each weight
\* configuration the schema admits that is exact in binary floating point
\* (weights in tenths), and the defaults
AllWeightConfigs ==
    WeightConfigs \cup { [weightLeetCode |-> 5, weightGitHub |-> 5],
                         [weightLeetCode |-> 10, weightGitHub |-> 0],
                         [weightLeetCode |-> 0, weightGitHub |-> 10] }

EntryArgs ==
    { [ solved |-> [easySolved |-> e, mediumSolved |-> m, hardSolved |-> 0],
        stats |-> [ leetcode |-> [easy |-> e, medium |-> m, hard |-> 0,
                                  total |-> e + m],
                    github |-> [totalCommits |-> c, weeklyCommits |-> w,
                                monthlyCommits |-> mo] ],
        settings |-> s ] :
        e \in SolvedCounts, m \in SolvedCounts,
        c \in CommitCounts \cup {Undefined}, w \in WeeklyCounts, mo \in MonthlyCounts,
        s \in AllWeightConfigs }

CalcLeaderboardEntry ==
    /\ calc.fn = "none"
    /\ calc' = [calc EXCEPT
                !.fn = "leaderboardEntry",
                !.out = leaderboardEntry(
                            [NewParticipant("u1", "participant", 0)
                                EXCEPT !.stats = calc.arg.stats],
                            1, calc.arg.settings)]
    /\ UNCHANGED <<rooms, users, now, resp, io, refreshes, joins>>

\* Inputs of the ranking: the entries as the map callback leaves them, in
\* participant order, reduced to their position and totalScore
RankScores == {10, 50, 80}

RECURSIVE ScoreLists(_)
ScoreLists(n) ==
    IF n = 0 THEN {<<>>}
    ELSE LET shorter == ScoreLists(n - 1)
         IN shorter \cup { Append(l, x) : l \in {q \in shorter : Len(q) = n - 1},
                                            x \in RankScores }

RankArgs ==
    { [i \in 1..Len(l) |-> [idx |-> i, totalScore |-> l[i]]] :
        l \in ScoreLists(MaxEntries) \ {<<>>} }

CalcRanks ==
    /\ calc.fn = "none"
    /\ calc' = [calc EXCEPT !.fn = "ranks",
                            !.out = assignRanks(sortByTotalScore(calc.arg))]
    /\ UNCHANGED <<rooms, users, now, resp, io, refreshes, joins>>

-----------------------------------------------------------------------------
(* leetcodeAPI.getUserStats, src/unnamed/part_001:4-67 *)

\* LEETCODE_API_ENDPOINTS: the mirrors, by position
EndpointCount == 3
Endpoints == 1..EndpointCount

\* The body of a mirror's answer; a field the mirror did not send is "" or undefined
NoData == [ status |-> "", message |-> "", errors |-> "",
            totalSolved |-> Undefined, solvedProblem |-> Undefined,
            total_solved |-> Undefined,
            easySolved |-> Undefined, easy |-> Undefined, easy_solved |-> Undefined,
            mediumSolved |-> Undefined, medium |-> Undefined, medium_solved |-> Undefined,
            hardSolved |-> Undefined, hard |-> Undefined, hard_solved |-> Undefined,
            totalQuestions |-> Undefined, total_problems |-> Undefined,
            totalEasy |-> Undefined, total_easy |-> Undefined,
            totalMedium |-> Undefined, total_medium |-> Undefined,
            totalHard |-> Undefined, total_hard |-> Undefined,
            acceptanceRate |-> Undefined, acceptance_rate |-> Undefined,
            ranking |-> Undefined, rank |-> Undefined,
            contributionPoints |-> Undefined, contribution_points |-> Undefined,
            reputation |-> Undefined ]

\* What fetch(`${apiBase}/${username}`) and response.json() can give: a rejected
\* fetch, a non-OK status, an error-shaped body, or stats under one of the
\* naming conventions
LcResponses ==
    { [kind |-> "transport", status |-> 0, data |-> NoData],
      [kind |-> "http", status |-> 404, data |-> NoData],
      [kind |-> "http", status |-> 200,
       data |-> [NoData EXCEPT !.status = "error", !.message = "user does not exist"]],
      [kind |-> "http", status |-> 200, data |-> [NoData EXCEPT !.errors = "not found"]],
      [kind |-> "http", status |-> 200,
       data |-> [NoData EXCEPT !.status = "success", !.totalSolved = 6, !.easySolved = 3,
                               !.mediumSolved = 2, !.hardSolved = 1]],
      [kind |-> "http", status |-> 200,
       data |-> [NoData EXCEPT !.solvedProblem = 9, !.easy = 5, !.medium = 4]] }

\* x || d on strings
StrOrElse(x, d) == IF x = "" THEN d ELSE x

\* lines 19-33: the Error thrown inside the try for this answer, "" if none
endpointError(r) ==
    IF r.kind = "transport" THEN "fetch failed"
    ELSE IF r.status # 200 THEN "API responded with status: 404"
    ELSE IF r.data.status = "error" \/ r.data.message = "failed" \/ r.data.errors # ""
         THEN StrOrElse(r.data.message, StrOrElse(r.data.errors, "User not found"))
         ELSE ""

\* lines 36-49: for each field the first naming convention that holds a
\* truthy value, else 0 (null for ranking).  error and message are absent
\* from the returned object; they read as falsy.
normalizeAliasesOnly(data) ==
    [ error |-> FALSE, message |-> <<>>,
      totalSolved |-> OrElse(data.solvedProblem, OrZero(data.total_solved)),
      totalQuestions |-> OrZero(data.total_problems),
      easySolved |-> OrElse(data.easy, OrZero(data.easy_solved)),
      totalEasy |-> OrZero(data.total_easy),
      mediumSolved |-> OrElse(data.medium, OrZero(data.medium_solved)),
      totalMedium |-> OrZero(data.total_medium),
      hardSolved |-> OrElse(data.hard, OrZero(data.hard_solved)),
      totalHard |-> OrZero(data.total_hard),
      acceptanceRate |-> OrZero(data.acceptance_rate),
      ranking |-> OrElse(data.rank, Null),
      contributionPoints |-> OrZero(data.contribution_points),
      reputation |-> OrZero(data.reputation) ]
normalize(data) ==
    [ error |-> FALSE, message |-> <<>>,
      totalSolved |-> OrElse(data.totalSolved,
                             OrElse(data.solvedProblem, OrZero(data.total_solved))),
      totalQuestions |-> OrElse(data.totalQuestions, OrZero(data.total_problems)),
      easySolved |-> OrElse(data.easySolved, OrElse(data.easy, OrZero(data.easy_solved))),
      totalEasy |-> OrElse(data.totalEasy, OrZero(data.total_easy)),
      mediumSolved |-> OrElse(data.mediumSolved,
                              OrElse(data.medium, OrZero(data.medium_solved))),
      totalMedium |-> OrElse(data.totalMedium, OrZero(data.total_medium)),
      hardSolved |-> OrElse(data.hardSolved, OrElse(data.hard, OrZero(data.hard_solved))),
      totalHard |-> OrElse(data.totalHard, OrZero(data.total_hard)),
      acceptanceRate |-> OrElse(data.acceptanceRate, OrZero(data.acceptance_rate)),
      ranking |-> OrElse(data.ranking, OrElse(data.rank, Null)),
      contributionPoints |-> OrElse(data.contributionPoints,
                                    OrZero(data.contribution_points)),
      reputation |-> OrZero(data.reputation) ]

\* The returned object read as a response body: a field it does not have
\* reads as undefined
asData(record) ==
    [ f \in DOMAIN NoData |->
        IF f \in DOMAIN record \ {"error", "message"} THEN record[f] ELSE NoData[f] ]

\* lines 59-66: the record returned when every mirror failed; message is
\* errors.join('; '), kept as the list of `${apiBase}: ${error.message}`
allFailedLastReasonOnly(errors) ==
    [ error |-> TRUE, message |-> <<errors[Len(errors)]>>,
      totalSolved |-> 0, easySolved |-> 0, mediumSolved |-> 0, hardSolved |-> 0 ]
allFailed(errors) ==
    [ error |-> TRUE, message |-> errors,
      totalSolved |-> 0, easySolved |-> 0, mediumSolved |-> 0, hardSolved |-> 0 ]

\* lines 16-55: the loop over the mirrors.  net[i] is the answer of mirror i;
\* requests lists the mirrors asked, in order.
RECURSIVE tryAllEndpoints(_, _, _, _, _)
tryAllEndpoints(net, i, errors, requests, found) ==
    IF i > EndpointCount
    THEN [ result |-> IF found = 0 THEN allFailed(errors) ELSE normalize(net[found].data),
           requests |-> requests, raised |-> FALSE ]
    ELSE IF endpointError(net[i]) = ""
         THEN tryAllEndpoints(net, i + 1, errors, Append(requests, i), i)
         ELSE tryAllEndpoints(net, i + 1,
                              Append(errors, [endpoint |-> i,
                                              reason |-> endpointError(net[i])]),
                              Append(requests, i), found)

RECURSIVE tryEndpoints(_, _, _, _)
tryEndpoints(net, i, errors, requests) ==
    IF i > EndpointCount
    THEN [result |-> allFailed(errors), requests |-> requests, raised |-> FALSE]
    ELSE IF endpointError(net[i]) = ""
         THEN [ result |-> normalize(net[i].data),
                requests |-> Append(requests, i), raised |-> FALSE ]
         ELSE tryEndpoints(net, i + 1,
                           Append(errors, [endpoint |-> i,
                                           reason |-> endpointError(net[i])]),
                           Append(requests, i))

getUserStatsAsksEveryMirror(net) == tryAllEndpoints(net, 1, <<>>, <<>>, 0)
getUserStats(net) == tryEndpoints(net, 1, <<>>, <<>>)

LcNets == [Endpoints -> LcResponses]

\* Response bodies over the recognised field names: the names of the solved
\* total each absent, 0 or set; of the easy count and of the ranking each
\* absent or set; a ranking of null
RawDatas ==
    { [NoData EXCEPT !.totalSolved = a, !.solvedProblem = b, !.total_solved = c,
                     !.easySolved = d, !.easy = e, !.easy_solved = g,
                     !.ranking = k, !.rank = m] :
        a \in {Undefined, 0, 6}, b \in {Undefined, 0, 9}, c \in {Undefined, 7},
        d \in {Undefined, 3}, e \in {Undefined, 5}, g \in {Undefined, 4},
        k \in {Undefined, Null, 120}, m \in {Undefined, 77} }

CallNormalize ==
    /\ calc.fn = "none"
    /\ calc' = [calc EXCEPT !.fn = "normalize",
                            !.out = [ once |-> normalize(calc.arg),
                                      twice |-> normalize(asData(normalize(calc.arg))) ]]
    /\ UNCHANGED <<rooms, users, now, resp, io, refreshes, joins>>

CallGetUserStats ==
    /\ calc.fn = "none"
    /\ calc' = [calc EXCEPT !.fn = "getUserStats", !.out = getUserStats(calc.arg)]
    /\ UNCHANGED <<rooms, users, now, resp, io, refreshes, joins>>

-----------------------------------------------------------------------------
(* githubAPI commit-activity strategies, src/unnamed/part_001:166-342, and
   GET /api/github/:username/stats, src/routes/github.js:7-41 *)

\* What one fetch gives: a rejected promise, a non-OK status, or an OK answer
GhResponses == {"transport", "notok", "ok"}

\* The requests of the two strategies: search/commits, users/:u and
\* users/:u/events/public of the accurate strategy, users/:u and
\* users/:u/events/public of the estimation
GhNets == [ search : GhResponses, profile : GhResponses, events : GhResponses,
            estProfile : GhResponses, estEvents : GhResponses ]

\* One event of users/:u/events/public: its type, payload.commits.length
\* (undefined when the payload has no commits) and where created_at falls:
\* in the last week, in the last month, or before
PushEvent(commits, age) == [type |-> "PushEvent", commits |-> commits, age |-> age]

\* part_001:218-229 and 286-301: the commits of the push events, `length || 1`
\* each: all of them, those of the last week, those of the last month
RECURSIVE countCommits(_)
countCommits(events) ==
    IF events = <<>> THEN [recent |-> 0, week |-> 0, month |-> 0]
    ELSE LET event == events[Len(events)]
             rest == countCommits(SubSeq(events, 1, Len(events) - 1))
             commitCount == OrElse(event.commits, 1)
         IN IF event.type # "PushEvent" THEN rest
            ELSE [ recent |-> rest.recent + commitCount,
                   week |-> rest.week + (IF event.age = "week" THEN commitCount ELSE 0),
                   month |-> rest.month +
                             (IF event.age \in {"week", "month"} THEN commitCount ELSE 0) ]

\* The content of the OK answers: searchData.total_count, profile.public_repos,
\* the age of profile.created_at in months (undefined without created_at), and
\* the events
GhOkData == [ total_count |-> 1030, public_repos |-> 3, ageMonths |-> 24,
              events |-> << PushEvent(1, "week"), PushEvent(3, "month"),
                            PushEvent(4, "older") >> ]

\* e.message of the error a failed fetch throws inside the try
ghFailure(what, r) ==
    IF r = "transport" THEN "fetch failed" ELSE <<what, "API failed: 403">>

\* part_001:195-241: the result once search and profile answered; the events
\* count only when eventsRes.ok
accurateResult(data, eventsOk) ==
    LET counted == IF eventsOk THEN countCommits(data.events) ELSE countCommits(<<>>)
    IN [ supported |-> TRUE,
         total |-> OrZero(data.total_count),
         thisWeek |-> counted.week,
         thisMonth |-> counted.month,
         publicRepos |-> OrZero(data.public_repos),
         method |-> "accurate" ]

\* part_001:166-247
getContributionStatsGraphQL(net) ==
    IF net.search # "ok"
    THEN [ result |-> [supported |-> FALSE, reason |-> ghFailure("Search", net.search)],
           calls |-> <<"search">>, raised |-> FALSE ]
    ELSE IF net.profile # "ok"
    THEN [ result |-> [supported |-> FALSE, reason |-> ghFailure("Profile", net.profile)],
           calls |-> <<"search", "profile">>, raised |-> FALSE ]
    ELSE IF net.events = "transport"
    THEN [ result |-> [supported |-> FALSE, reason |-> "fetch failed"],
           calls |-> <<"search", "profile", "events">>, raised |-> FALSE ]
    ELSE [ result |-> accurateResult(GhOkData, net.events = "ok"),
           calls |-> <<"search", "profile", "events">>, raised |-> FALSE ]

\* part_001:305-320: Math.max(recentCommits * 10,
\*   Math.floor(baseEstimate * activityMultiplier * ageMultiplier)), with
\* activityMultiplier in tenths and ageMultiplier in 24ths (months / 24)
estimatedTotalBaseOnly(publicRepos, recentCommits, ageMonths) ==
    LET accountAgeMonths == Max(12, ageMonths)
        baseEstimate == publicRepos * 8
        activityMultiplier10 == IF recentCommits > 0 THEN Min(30, recentCommits) ELSE 5
        ageMultiplier24 == Min(48, accountAgeMonths)
    IN (baseEstimate * activityMultiplier10 * ageMultiplier24) \div 240
estimatedTotal(publicRepos, recentCommits, ageMonths) ==
    LET accountAgeMonths == Max(12, ageMonths)
        baseEstimate == publicRepos * 8
        activityMultiplier10 == IF recentCommits > 0 THEN Min(30, recentCommits) ELSE 5
        ageMultiplier24 == Min(48, accountAgeMonths)
    IN Max(recentCommits * 10,
           (baseEstimate * activityMultiplier10 * ageMultiplier24) \div 240)

\* part_001:331-341: what the catch returns
commitStatsFailed ==
    [ total |-> 0, thisWeek |-> 0, thisMonth |-> 0, publicRepos |-> 0,
      accountAge |-> 0, recentActivity |-> 0 ]

\* part_001:276-330: the result once the profile answered; accountAge is
\* Math.max(1, years) with created_at, 1 without, and is returned in months
estimateResult(data, eventsOk) ==
    LET counted == IF eventsOk THEN countCommits(data.events) ELSE countCommits(<<>>)
        ageMonths == IF data.ageMonths = Undefined THEN 12 ELSE Max(12, data.ageMonths)
    IN [ total |-> estimatedTotal(data.public_repos, counted.recent, ageMonths),
         thisWeek |-> counted.week,
         thisMonth |-> counted.month,
         publicRepos |-> data.public_repos,
         accountAge |-> ageMonths,
         recentActivity |-> counted.recent ]

\* part_001:263-342; getUserProfile (249-260) rethrows into the catch
getUserCommitStats(net) ==
    IF net.estProfile # "ok"
    THEN [result |-> commitStatsFailed, calls |-> <<"profile">>, raised |-> FALSE]
    ELSE IF net.estEvents = "transport"
    THEN [result |-> commitStatsFailed, calls |-> <<"profile", "events">>, raised |-> FALSE]
    ELSE [ result |-> estimateResult(GhOkData, net.estEvents = "ok"),
           calls |-> <<"profile", "events">>, raised |-> FALSE ]

\* github.js:7-41; strategies lists the service calls in the order made
githubStatsRouteEstimateFirst(net) ==
    LET estimate == getUserCommitStats(net).result
        gql == getContributionStatsGraphQL(net).result
    IN IF estimate.total > 0 \/ ~gql.supported
       THEN [ status |-> 200, strategies |-> <<"estimate">>,
              body |-> [ success |-> TRUE, method |-> "estimate",
                         stats |-> [ totalCommits |-> estimate.total,
                                     weeklyCommits |-> estimate.thisWeek,
                                     monthlyCommits |-> estimate.thisMonth,
                                     publicRepos |-> OrZero(estimate.publicRepos) ] ] ]
       ELSE [ status |-> 200, strategies |-> <<"estimate", "accurate">>,
              body |-> [ success |-> TRUE, method |-> gql.method,
                         stats |-> [ totalCommits |-> gql.total,
                                     weeklyCommits |-> gql.thisWeek,
                                     monthlyCommits |-> gql.thisMonth,
                                     publicRepos |-> gql.publicRepos ] ] ]
githubStatsRoute(net) ==
    LET gql == getContributionStatsGraphQL(net).result
        estimate == getUserCommitStats(net).result
    IN IF gql.supported
       THEN [ status |-> 200, strategies |-> <<"accurate">>,
              body |-> [ success |-> TRUE, method |-> gql.method,
                         stats |-> [ totalCommits |-> gql.total,
                                     weeklyCommits |-> gql.thisWeek,
                                     monthlyCommits |-> gql.thisMonth,
                                     publicRepos |-> gql.publicRepos ] ] ]
       ELSE [ status |-> 200, strategies |-> <<"accurate", "estimate">>,
              body |-> [ success |-> TRUE, method |-> "estimate",
                         fallbackReason |-> gql.reason,
                         stats |-> [ totalCommits |-> estimate.total,
                                     weeklyCommits |-> estimate.thisWeek,
                                     monthlyCommits |-> estimate.thisMonth,
                                     publicRepos |-> OrZero(estimate.publicRepos) ] ] ]

\* The answers of the provider: counts that are absent or non-negative
MaxEvents == 2
EventInputs ==
    { PushEvent(c, a) : c \in {Undefined, 0, 3, 20}, a \in {"week", "month", "older"} }
        \cup { [type |-> "WatchEvent", commits |-> Undefined, age |-> "week"] }

RECURSIVE EventLists(_)
EventLists(n) ==
    IF n = 0 THEN {<<>>}
    ELSE EventLists(n - 1) \cup
         { Append(es, e) : es \in {x \in EventLists(n - 1) : Len(x) = n - 1},
                           e \in EventInputs }

CommitDatas ==
    [ total_count : {Undefined, 1030}, public_repos : {0, 3, 40},
      ageMonths : {Undefined, 3, 24, 120}, events : EventLists(MaxEvents) ]

CallAccurateResult ==
    /\ calc.fn = "none"
    /\ \E eventsOk \in BOOLEAN :
         calc' = [calc EXCEPT !.fn = "accurate",
                              !.out = [ eventsOk |-> eventsOk,
                                        result |-> accurateResult(calc.arg, eventsOk) ]]
    /\ UNCHANGED <<rooms, users, now, resp, io, refreshes, joins>>

CallEstimateResult ==
    /\ calc.fn = "none"
    /\ \E eventsOk \in BOOLEAN :
         calc' = [calc EXCEPT !.fn = "estimate",
                              !.out = [ eventsOk |-> eventsOk,
                                        result |-> estimateResult(calc.arg, eventsOk) ]]
    /\ UNCHANGED <<rooms, users, now, resp, io, refreshes, joins>>

CallContributionStats ==
    /\ calc.fn = "none"
    /\ calc' = [calc EXCEPT !.fn = "getContributionStatsGraphQL",
                            !.out = getContributionStatsGraphQL(calc.arg)]
    /\ UNCHANGED <<rooms, users, now, resp, io, refreshes, joins>>

CallCommitStats ==
    /\ calc.fn = "none"
    /\ calc' = [calc EXCEPT !.fn = "getUserCommitStats",
                            !.out = getUserCommitStats(calc.arg)]
    /\ UNCHANGED <<rooms, users, now, resp, io, refreshes, joins>>

GetGithubStats ==
    /\ calc.fn = "none"
    /\ calc' = [calc EXCEPT !.fn = "githubStats", !.out = githubStatsRoute(calc.arg)]
    /\ UNCHANGED <<rooms, users, now, resp, io, refreshes, joins>>

-----------------------------------------------------------------------------

Init ==
    /\ rooms = <<>>
    /\ users = [u \in Users |-> [exists |-> FALSE, leetcodeUsername |-> "",
                                 githubUsername |-> ""]]
    /\ now = 0
    /\ resp = NoResp
    /\ io = NoIo
    /\ calc = NoCalc
    /\ refreshes = 0
    /\ joins = {}

\* Requests are served while the clock is below the horizon of the specification
Membership(h) ==
    \/ \E u \in Users, mp \in MaxParticipantsInputs : now < h /\ PostRoom(u, mp)
    \/ \E r \in 1..MaxRooms, u \in Users : now < h /\ JoinRoom(r, u)
    \/ \E r \in 1..MaxRooms, u \in Users : now < h /\ LeaveRoom(r, u)

Sync(h, k) ==
    \/ \E u \in Users, l \in UserNames \cup {NoName}, g \in UserNames \cup {NoName} :
            now < h /\ refreshes < k /\ PutUser(u, l, g)
    \/ \E u \in Users : now < h /\ refreshes < k /\ RefreshStats(u)

Refresh(h, k) ==
    \/ \E r \in 1..MaxRooms, u \in Users, saveOk \in BOOLEAN,
          l \in UserNames \cup {NoName}, g \in UserNames \cup {NoName},
          fg \in FrontGithubs, fl \in FrontLeetcodes :
            /\ now < h /\ refreshes < k
            /\ UpdateStats(r, u, [leetcode |-> l, github |-> g],
                           [github |-> fg, leetcode |-> fl], saveOk)
    \/ \E r \in 1..MaxRooms, u \in Users, saveOk \in BOOLEAN :
            now < h /\ refreshes < k /\ RefreshLeaderboard(r, u, saveOk)

\* Membership requests and one sync, over short histories
\* update-stats with frontendStats that hold whatever the client sent
ClientFrontGithubs ==
    { [present |-> TRUE,
       value |-> [totalCommits |-> 0 - 500, weeklyCommits |-> 0, monthlyCommits |-> 0]] }

UpdateFromClient(h, k) ==
    \E r \in 1..MaxRooms, u \in Users, g \in UserNames \cup {NoName},
       fg \in ClientFrontGithubs :
        /\ now < h /\ refreshes < k
        /\ UpdateStats(r, u, [leetcode |-> NoName, github |-> g],
                       [github |-> fg, leetcode |-> NoFrontLeetcode], TRUE)

Board == \E r \in 1..MaxRooms : GetLeaderboard(r)

Admin(h) ==
    \/ \E r \in 1..MaxRooms, u \in Users, mp \in SettingsInputs :
            now < h /\ PutRoom(r, u, mp)
    \/ \E r \in 1..MaxRooms, u \in Users : now < h /\ StartRoom(r, u)
    \/ \E r \in 1..MaxRooms, u \in Users : now < h /\ DeleteRoom(r, u)

Reads ==
    \/ \E r \in 1..MaxRooms : GetLeaderboard(r)
    \/ \E r \in 1..MaxRooms : GetRoom(r)

\* The last request was not a read
Wrote == resp.op \notin {"leaderboard", "getRoom"}

\* Membership, administration, acquisition and the reads.  A read changes
\* nothing a later request reads, so the histories are explored up to their
\* first read.
NextAdmin ==
    \/ Wrote /\ Membership(MaxDepth)
    \/ Wrote /\ Admin(MaxDepth)
    \/ Wrote /\ Refresh(MaxDepth, MaxRefreshes)
    \/ Reads

SpecAdmin == Init /\ [][NextAdmin]_vars

\* Three users and rooms created for two participants, with the join requests
\* interleaved at their awaits
Members == Users \cup {"u3"}
CapacityInputs == {2}

InitCapacity ==
    /\ rooms = <<>>
    /\ users = [u \in Members |-> [exists |-> FALSE, leetcodeUsername |-> "",
                                   githubUsername |-> ""]]
    /\ now = 0
    /\ resp = NoResp
    /\ io = NoIo
    /\ calc = NoCalc
    /\ refreshes = 0
    /\ joins = {}

NextCapacity ==
    \/ \E u \in Members, mp \in CapacityInputs : now < MaxDepth /\ PostRoom(u, mp)
    \/ \E r \in 1..MaxRooms, u \in Members : now < MaxDepth /\ JoinRead(r, u)
    \/ \E r \in 1..MaxRooms, u \in Members : now < MaxDepth /\ JoinSave(r, u)
    \/ \E r \in 1..MaxRooms, u \in Members : now < MaxDepth /\ LeaveRoom(r, u)
    \/ \E r \in 1..MaxRooms, u \in Members, mp \in SettingsInputs :
            now < MaxDepth /\ PutRoom(r, u, mp)

SpecCapacity == InitCapacity /\ [][NextCapacity]_vars

\* Membership and administration alone, over longer histories
NextLifecycle == Membership(MaxClock) \/ Admin(MaxClock)

SpecLifecycle == Init /\ [][NextLifecycle]_vars

NextSync == Membership(MaxDepth) \/ Sync(MaxDepth, MaxRefreshes)

SpecSync == Init /\ [][NextSync]_vars

\* The same over histories long enough to leave a room and join it again
NextRejoin == Membership(MaxClock) \/ Sync(MaxClock, MaxRefreshes)

SpecRejoin == Init /\ [][NextRejoin]_vars

Next == Membership(MaxDepth) \/ Refresh(MaxDepth, MaxDepth) \/ Sync(MaxDepth, MaxDepth)

Spec == Init /\ [][Next]_vars

InitScore ==
    /\ rooms = <<>>
    /\ users = [u \in Users |-> [exists |-> FALSE, leetcodeUsername |-> "",
                                 githubUsername |-> ""]]
    /\ now = 0
    /\ resp = NoResp
    /\ io = NoIo
    /\ refreshes = 0
    /\ joins = {}
    /\ \E a \in ScoreArgs : calc = [fn |-> "none", arg |-> a, out |-> 0]

NextScore ==
    \/ CalcServiceScore
    \/ CalcLeetCodeScore
    \/ CalcGithubScore
    \/ CalcTotalScore

SpecScore == InitScore /\ [][NextScore]_vars

\* All requests, with the leaderboard read.  A read changes nothing a later
\* request reads, so the histories are explored up to their first read.
NextBoard ==
    \/ resp.op # "leaderboard" /\ Membership(MaxDepth)
    \/ resp.op # "leaderboard" /\ Refresh(MaxDepth, MaxDepth)
    \/ resp.op # "leaderboard" /\ UpdateFromClient(MaxDepth, MaxDepth)
    \/ resp.op # "leaderboard" /\ Sync(MaxDepth, MaxRefreshes)
    \/ Board

SpecBoard == Init /\ [][NextBoard]_vars

InitEntry ==
    /\ rooms = <<>>
    /\ users = [u \in Users |-> [exists |-> FALSE, leetcodeUsername |-> "",
                                 githubUsername |-> ""]]
    /\ now = 0
    /\ resp = NoResp
    /\ io = NoIo
    /\ refreshes = 0
    /\ joins = {}
    /\ \E a \in EntryArgs : calc = [fn |-> "none", arg |-> a, out |-> 0]

NextEntry == CalcLeaderboardEntry

SpecEntry == InitEntry /\ [][NextEntry]_vars

InitLeetcode ==
    /\ rooms = <<>>
    /\ users = [u \in Users |-> [exists |-> FALSE, leetcodeUsername |-> "",
                                 githubUsername |-> ""]]
    /\ now = 0
    /\ resp = NoResp
    /\ io = NoIo
    /\ refreshes = 0
    /\ joins = {}
    /\ \E a \in LcNets : calc = [fn |-> "none", arg |-> a, out |-> 0]

NextLeetcode == CallGetUserStats

SpecLeetcode == InitLeetcode /\ [][NextLeetcode]_vars

InitNormalize ==
    /\ rooms = <<>>
    /\ users = [u \in Users |-> [exists |-> FALSE, leetcodeUsername |-> "",
                                 githubUsername |-> ""]]
    /\ now = 0
    /\ resp = NoResp
    /\ io = NoIo
    /\ refreshes = 0
    /\ joins = {}
    /\ \E a \in RawDatas : calc = [fn |-> "none", arg |-> a, out |-> 0]

NextNormalize == CallNormalize

SpecNormalize == InitNormalize /\ [][NextNormalize]_vars

InitCommits ==
    /\ rooms = <<>>
    /\ users = [u \in Users |-> [exists |-> FALSE, leetcodeUsername |-> "",
                                 githubUsername |-> ""]]
    /\ now = 0
    /\ resp = NoResp
    /\ io = NoIo
    /\ refreshes = 0
    /\ joins = {}
    /\ \E a \in CommitDatas : calc = [fn |-> "none", arg |-> a, out |-> 0]

NextCommits ==
    \/ CallAccurateResult
    \/ CallEstimateResult

SpecCommits == InitCommits /\ [][NextCommits]_vars

InitGithub ==
    /\ rooms = <<>>
    /\ users = [u \in Users |-> [exists |-> FALSE, leetcodeUsername |-> "",
                                 githubUsername |-> ""]]
    /\ now = 0
    /\ resp = NoResp
    /\ io = NoIo
    /\ refreshes = 0
    /\ joins = {}
    /\ \E a \in GhNets : calc = [fn |-> "none", arg |-> a, out |-> 0]

NextGithub ==
    \/ CallContributionStats
    \/ CallCommitStats
    \/ GetGithubStats

SpecGithub == InitGithub /\ [][NextGithub]_vars

InitRank ==
    /\ rooms = <<>>
    /\ users = [u \in Users |-> [exists |-> FALSE, leetcodeUsername |-> "",
                                 githubUsername |-> ""]]
    /\ now = 0
    /\ resp = NoResp
    /\ io = NoIo
    /\ refreshes = 0
    /\ joins = {}
    /\ \E a \in RankArgs : calc = [fn |-> "none", arg |-> a, out |-> 0]

NextRank == CalcRanks

SpecRank == InitRank /\ [][NextRank]_vars

-----------------------------------------------------------------------------
(* Properties of the Sync Propagator, checked under SpecSync (C5: SpecRejoin) *)

\* The last request ran updateParticipantStatsInRooms
SyncRan == resp.op \in {"putUser", "refreshStats"} /\ io.req # NoReq

\* The rooms of the collection, as the sync found it, whose loop iteration is not
\* skipped: the user's entry located by auth0Id is active
syncProcessable ==
    { r \in 1..Len(io.before) :
        io.before[r].isActive /\ ~syncSkips(io.before[r], resp.user) }

SavedOk(r) == [room |-> r, ok |-> TRUE] \in io.saves
SaveFailed(r) == [room |-> r, ok |-> FALSE] \in io.saves

\* C1: when the sync runs for a user who is an active participant in several
\* rooms, a failure while saving one room does not keep the remaining rooms from
\* being processed and saved: every room whose own save did not fail is saved
\* with the participant's statsLastUpdated refreshed.
C1_SiblingRoomsStillSaved ==
    SyncRan =>
        \A r \in syncProcessable :
            ~SaveFailed(r) =>
                /\ SavedOk(r)
                /\ rooms[r].participants[findParticipant(rooms[r], resp.user)]
                        .statsLastUpdated = now - 1

\* C5: after the sync completes for a user, every active room in which the user
\* is a currently-active participant (isParticipant) holds an active entry of the
\* user with the requested usernames and a refreshed statsLastUpdated, and the
\* room was saved.
C5_ActiveParticipantSynced ==
    (SyncRan /\ \A s \in io.saves : s.ok) =>
        \A r \in 1..Len(io.before) :
            (io.before[r].isActive /\ isParticipant(io.before[r], resp.user)) =>
                /\ SavedOk(r)
                /\ \E i \in 1..Len(rooms[r].participants) :
                    LET p == rooms[r].participants[i] IN
                    /\ p.auth0Id = resp.user
                    /\ p.isActive
                    /\ p.statsLastUpdated = now - 1
                    /\ (io.req.github # NoName => p.profiles.github = io.req.github)
                    /\ (io.req.leetcode # NoName => p.profiles.leetcode = io.req.leetcode)

\* The leetcode snapshot that a successful getUserStats result is stored as
LcSnapshot(l) == [easy |-> l.easySolved, medium |-> l.mediumSolved,
                  hard |-> l.hardSolved, total |-> l.totalSolved]

\* C6: when no save fails, the sync asks the problem-solving provider for every
\* room it processes in which the user's username is non-empty, and every room
\* whose fetch succeeded holds the fetched stats afterwards, whether or not the
\* fetch failed for another room.
C6_FetchFailureIsPerRoom ==
    (SyncRan /\ \A s \in io.saves : s.ok) =>
        \A r \in syncProcessable :
            LET i == findParticipant(io.before[r], resp.user)
                name == syncProfiles(io.before[r].participants[i].profiles, io.req).leetcode
            IN name # "" =>
                \E f \in io.fetches :
                    /\ f.room = r /\ f.idx = i /\ f.lcCalled
                    /\ SavedOk(r)
                    /\ (~f.lc.error =>
                            rooms[r].participants[i].stats.leetcode = LcSnapshot(f.lc))
                    /\ (f.lc.error =>
                            rooms[r].participants[i].stats.leetcode
                                = io.before[r].participants[i].stats.leetcode)

\* C6 witness: a user active in two rooms links a problem-solving username; the
\* fetch fails for one room and succeeds for the other, whose record holds the
\* fetched stats.
C6_Witness ==
    /\ resp.op = "putUser"
    /\ io.req.leetcode = "alice"
    /\ \A s \in io.saves : s.ok
    /\ \E f1, f2 \in io.fetches :
        /\ f1.room # f2.room
        /\ f1.lcCalled /\ f1.lc.error
        /\ f2.lcCalled /\ ~f2.lc.error
        /\ rooms[f2.room].participants[f2.idx].stats.leetcode = LcSnapshot(f2.lc)
        /\ rooms[f2.room].participants[f2.idx].stats.leetcode
                # io.before[f2.room].participants[f2.idx].stats.leetcode

-----------------------------------------------------------------------------
(* Properties of the stats requests, checked under Spec *)

StatsOps == {"updateStats", "refreshLeaderboard", "putUser", "refreshStats"}

AnySaveFailed == \E s \in io.saves : ~s.ok

\* C2 (as claimed): whenever persisting a room fails in update-stats,
\* refresh-leaderboard, the sync of a profile-username update or the sync of
\* refresh-stats, the response reports failure.
C2_FailedSaveReported ==
    (resp.op \in StatsOps /\ AnySaveFailed) => ~resp.success

\* C2 (amended): a failed save makes update-stats, refresh-leaderboard and
\* refresh-stats answer with a failure; the profile-username update alone
\* answers success, because it catches the error of its sync.
C2_FailedSaveReportedExceptPutUser ==
    (resp.op \in StatsOps /\ AnySaveFailed) =>
        (resp.success <=> resp.op = "putUser")

\* C2 witness: each of the three reporting requests has answered 500 after a
\* failed save; shown here for update-stats, whose computed stats are lost
C2_Witness ==
    /\ resp.op = "updateStats"
    /\ AnySaveFailed
    /\ resp.status = 500
    /\ ~resp.success
    /\ \E f \in io.fetches : f.ghCalled \/ f.lcCalled
    /\ rooms = io.before

\* The github snapshot that a strategy's result {total, thisWeek, thisMonth} is
GhSnapshot(x) == [totalCommits |-> x.total, weeklyCommits |-> x.thisWeek,
                  monthlyCommits |-> x.thisMonth]

\* The record the commit-activity provider returned in a fetch, if any:
\* the accurate result when supported, else the estimate unless it failed
GhFetchOk(f) ==
    IF f.chain = "estimate" THEN ~f.gh.est.failed
    ELSE f.gh.exists /\ (f.gh.gql.supported \/ ~f.gh.est.failed)

GhFetched(f) ==
    IF f.chain = "full" /\ f.gh.gql.supported THEN GhSnapshot(f.gh.gql)
    ELSE GhSnapshot(f.gh.est)

Entry(store, f) == store[f.room].participants[f.idx]

HasWarning(provider) ==
    \E e \in resp.errors :
        \/ (provider = "github" /\ e = WarnGithubNotFound)
        \/ (provider = "leetcode" /\ e = WarnLeetcodeError)
        \/ (provider = "leetcode" /\ e \in {WarnLeetcodeUser(u) : u \in Users})

\* C3: in every refresh operation that was saved, for each provider asked for a
\* processed participant, either the fetch succeeded and the stored snapshot is
\* the record obtained, or the fetch failed, the stored snapshot is the previous
\* one and a warning is recorded.
C3_ReplaceOrKeep ==
    (resp.op \in StatsOps /\ ~AnySaveFailed) =>
        \A f \in io.fetches :
            /\ f.ghCalled =>
                IF GhFetchOk(f)
                THEN Entry(rooms, f).stats.github = GhFetched(f)
                ELSE /\ Entry(rooms, f).stats.github = Entry(io.before, f).stats.github
                     /\ HasWarning("github")
            /\ f.lcCalled =>
                IF ~f.lc.error
                THEN Entry(rooms, f).stats.leetcode = LcSnapshot(f.lc)
                ELSE /\ Entry(rooms, f).stats.leetcode = Entry(io.before, f).stats.leetcode
                     /\ HasWarning("leetcode")

\* C4: in update-stats, whenever the snapshot stored for a provider is not a
\* record the provider returned (a fixed fallback or default), the response is
\* a success and carries a warning for that provider.
C4_FallbackHasWarning ==
    (resp.op = "updateStats" /\ ~AnySaveFailed) =>
        /\ resp.success
        /\ \A f \in io.fetches :
            /\ (f.ghCalled /\ ~(f.gh.exists /\ Entry(rooms, f).stats.github = GhFetched(f)))
                    => HasWarning("github")
            /\ (f.lcCalled /\ ~(~f.lc.error
                                /\ Entry(rooms, f).stats.leetcode = LcSnapshot(f.lc)))
                    => HasWarning("leetcode")

\* C7: in refresh-leaderboard, when the room is saved the response is a success,
\* every participant's failed provider call is listed as a warning, and every
\* participant whose fetch from a provider succeeded holds the fetched snapshot
\* of that provider, whatever happened to the other participants.
C7_ParticipantsIndependent ==
    (resp.op = "refreshLeaderboard" /\ ~AnySaveFailed) =>
        /\ resp.success
        /\ \A f \in io.fetches :
            /\ (f.ghCalled /\ ~GhFetchOk(f)) =>
                    \E e \in resp.errors : e[2] = Entry(rooms, f).auth0Id
            /\ (f.lcCalled /\ f.lc.error) =>
                    WarnLeetcodeUser(Entry(rooms, f).auth0Id) \in resp.errors
            /\ (f.lcCalled /\ ~f.lc.error) =>
                    Entry(rooms, f).stats.leetcode = LcSnapshot(f.lc)
            /\ (f.ghCalled /\ GhFetchOk(f)) =>
                    Entry(rooms, f).stats.github = GhFetched(f)

-----------------------------------------------------------------------------
(* Properties of the Score Calculator, checked under SpecScore *)

Solved == calc.arg.solved
Stored == calc.arg.stats
Weights == calc.arg.settings

\* C8: the problem-solving score of normalized stats is
\* easySolved*1 + mediumSolved*3 + hardSolved*5; (10, 5, 2) scores 35.
C8_ProblemScore ==
    calc.fn = "leetcodeAPI.calculateLeetCodeScore" =>
        /\ calc.out = Solved.easySolved + 3 * Solved.mediumSolved + 5 * Solved.hardSolved
        /\ (Solved = [easySolved |-> 10, mediumSolved |-> 5, hardSolved |-> 2]
                => calc.out = 35)

C8_Witness ==
    /\ calc.fn = "leetcodeAPI.calculateLeetCodeScore"
    /\ Solved = [easySolved |-> 10, mediumSolved |-> 5, hardSolved |-> 2]
    /\ calc.out = 35

\* The commit-activity score of section 4.4 for the stored counts, in halves:
\* totalCommits (1030 counted as 565) + weeklyCommits*2 + monthlyCommits*0.5
CommitScoreHalves ==
    2 * (IF Stored.github.totalCommits = 1030 THEN 565
         ELSE IF Stored.github.totalCommits = Undefined THEN 0
         ELSE Stored.github.totalCommits)
    + 4 * Stored.github.weeklyCommits + Stored.github.monthlyCommits

\* round(problemScore * weightLeetCode + commitScore * weightGitHub), for a
\* problem score p: weights are tenths, so the sum is p*wl/10 + halves*wg/20
RoundedWeightedSum(p) ==
    (2 * p * Weights.weightLeetCode + CommitScoreHalves * Weights.weightGitHub + 10)
        \div 20

\* C9 (as claimed): totalScore is the weighted sum, rounded once, of the
\* problem score easy*1 + medium*3 + hard*5 and of the commit-activity score.
C9_TotalScoreUses135 ==
    calc.fn = "totalScore" =>
        calc.out = RoundedWeightedSum(Stored.leetcode.easy + 3 * Stored.leetcode.medium
                                        + 5 * Stored.leetcode.hard)

\* C9 (amended): the problem score entering totalScore is the simplified variant
\* easy*1 + medium*2 + hard*3 of the stored snapshot; the sum is rounded once.
C9_TotalScoreUses123 ==
    calc.fn = "totalScore" =>
        calc.out = RoundedWeightedSum(Stored.leetcode.easy + 2 * Stored.leetcode.medium
                                        + 3 * Stored.leetcode.hard)

\* C9 witness: (10, 5, 2) and (100, 10, 40) under the default weights 0.6 and 0.4:
\* round(26*0.6 + 140*0.4) = round(71.6) = 72
C9_Witness ==
    /\ calc.fn = "totalScore"
    /\ Stored.leetcode = [easy |-> 10, medium |-> 5, hard |-> 2, total |-> 17]
    /\ Stored.github = [totalCommits |-> 100, weeklyCommits |-> 10, monthlyCommits |-> 40]
    /\ Weights = [weightLeetCode |-> 6, weightGitHub |-> 4]
    /\ calc.out = 72

\* C10 (as claimed): the commit-activity score is
\* totalCommits + weeklyCommits*2 + monthlyCommits*0.5 for all non-negative counts.
C10_CommitScore ==
    (calc.fn = "githubScore" /\ Stored.github.totalCommits # Undefined) =>
        calc.out = 2 * Stored.github.totalCommits + 4 * Stored.github.weeklyCommits
                    + Stored.github.monthlyCommits

\* C10 (amended): the same for every stored totalCommits other than 1030, which
\* is scored as 565; (100, 10, 40) scores 140.
C10_CommitScoreWithHotfix ==
    (calc.fn = "githubScore" /\ Stored.github.totalCommits # Undefined) =>
        /\ calc.out = 2 * (IF Stored.github.totalCommits = 1030 THEN 565
                           ELSE Stored.github.totalCommits)
                      + 4 * Stored.github.weeklyCommits + Stored.github.monthlyCommits
        /\ (Stored.github = [totalCommits |-> 100, weeklyCommits |-> 10,
                             monthlyCommits |-> 40] => calc.out = 2 * 140)

C10_Witness ==
    /\ calc.fn = "githubScore"
    /\ Stored.github = [totalCommits |-> 100, weeklyCommits |-> 10, monthlyCommits |-> 40]
    /\ calc.out = 280

-----------------------------------------------------------------------------
(* Properties of the leaderboard entry, checked under SpecEntry *)

\* C11: under every weight configuration, an entry whose stored totalCommits is
\* exactly 1030 is scored and displayed with 565 commits; any other stored value
\* (1029 and 1031 among them) is scored and displayed as stored, and nothing
\* else of the displayed stats differs from the stored stats.
C11_HotfixScoredAndDisplayed ==
    calc.fn = "leaderboardEntry" =>
        LET c == Stored.github.totalCommits
            shown == IF c = 1030 THEN 565 ELSE c
        IN /\ calc.out.stats = [Stored EXCEPT !.github.totalCommits = shown]
           /\ calc.out.totalScore =
                RoundedWeightedSum(Stored.leetcode.easy + 2 * Stored.leetcode.medium
                                    + 3 * Stored.leetcode.hard)

\* C11 witness: 1030 stored commits under the weights 0.5 and 0.5 are shown as 565
\* and scored round(0*0.5 + (565 + 10*2 + 40*0.5)*0.5) = round(302.5) = 303
C11_Witness ==
    /\ calc.fn = "leaderboardEntry"
    /\ Stored.github = [totalCommits |-> 1030, weeklyCommits |-> 10, monthlyCommits |-> 40]
    /\ Stored.leetcode.easy = 0 /\ Stored.leetcode.medium = 0
    /\ Weights = [weightLeetCode |-> 5, weightGitHub |-> 5]
    /\ calc.out.stats.github.totalCommits = 565
    /\ calc.out.totalScore = 303

-----------------------------------------------------------------------------
(* Properties of the ranking, checked under SpecRank *)

\* The rank given to the entry that stood at position i of the input
RankOf(i) == (CHOOSE e \in {calc.out[k] : k \in 1..Len(calc.out)} : e.idx = i).rank

\* C12: the ranked list holds every entry once, with its totalScore; ranks are
\* the positions 1..n; a higher totalScore always has a smaller rank; entries
\* with equal totalScore keep their input order; the scores [50, 80, 80, 10] get
\* the ranks [3, 1, 2, 4].
C12_StableRanking ==
    calc.fn = "ranks" =>
        LET n == Len(calc.arg) IN
        /\ Len(calc.out) = n
        /\ \A k \in 1..n : calc.out[k].rank = k
        /\ {calc.out[k].idx : k \in 1..n} = 1..n
        /\ \A k \in 1..n : calc.out[k].totalScore = calc.arg[calc.out[k].idx].totalScore
        /\ \A i, j \in 1..n :
                calc.arg[i].totalScore > calc.arg[j].totalScore => RankOf(i) < RankOf(j)
        /\ \A i, j \in 1..n :
                (calc.arg[i].totalScore = calc.arg[j].totalScore /\ i < j)
                    => RankOf(i) < RankOf(j)
        /\ ([k \in 1..n |-> calc.arg[k].totalScore] = <<50, 80, 80, 10>>
                => [k \in 1..n |-> RankOf(k)] = <<3, 1, 2, 4>>)

C12_Witness ==
    /\ calc.fn = "ranks"
    /\ Len(calc.arg) = 4
    /\ [k \in 1..4 |-> calc.arg[k].totalScore] = <<50, 80, 80, 10>>
    /\ [k \in 1..4 |-> calc.out[k].idx] = <<2, 3, 1, 4>>
    /\ [k \in 1..4 |-> calc.out[k].rank] = <<1, 2, 3, 4>>

-----------------------------------------------------------------------------
(* Properties of the leaderboard of a room, checked under SpecBoard *)

BoardServed == resp.op = "leaderboard" /\ resp.success

\* C13: every entry of every leaderboard served has totalScore >= 0, whatever
\* update-stats (with frontendStats), refresh-leaderboard and sync requests
\* came before.
C13_TotalScoreNonNegative ==
    BoardServed =>
        \A k \in 1..Len(resp.leaderboard) : resp.leaderboard[k].totalScore >= 0

\* The room a leaderboard was computed from, and the participant behind an entry
BoardRoom == rooms[resp.room]
BoardParticipant(e) == BoardRoom.participants[e.idx]

\* A provider for which the participant holds no stats: counts never set, or
\* never fetched
NoGithubStats(p) ==
    /\ p.stats.github.totalCommits \in {Undefined, 0}
    /\ p.stats.github.weeklyCommits \in {Undefined, 0}
    /\ p.stats.github.monthlyCommits \in {Undefined, 0}
NoLeetcodeStats(p) ==
    /\ p.stats.leetcode.easy \in {Undefined, 0}
    /\ p.stats.leetcode.medium \in {Undefined, 0}
    /\ p.stats.leetcode.hard \in {Undefined, 0}

\* round(x) for x counted in twentieths
RoundTwentieths(n) == (n + 10) \div 20

\* A count that was never set counts as zero
Counted(x) == IF x = Undefined THEN 0 ELSE x

\* C15: a leaderboard request for an active room completes with a success; the
\* leaderboard holds one entry for each participant entry whose isActive flag is
\* not false and none for the others; a participant without stats for a
\* provider gets the score of the other provider alone.
C15_OneEntryPerActiveParticipant ==
    (resp.op = "leaderboard" /\ BoardRoom.isActive) =>
        LET lb == resp.leaderboard
            ps == BoardRoom.participants
            wl == BoardRoom.settings.weightLeetCode
            wg == BoardRoom.settings.weightGitHub
        IN /\ resp.success
           /\ {lb[k].idx : k \in 1..Len(lb)} = {i \in 1..Len(ps) : ps[i].isActive}
           /\ Len(lb) = Cardinality({i \in 1..Len(ps) : ps[i].isActive})
           /\ \A k \in 1..Len(lb) :
                LET p == BoardParticipant(lb[k])
                    c == p.stats.github.totalCommits
                IN /\ lb[k].auth0Id = p.auth0Id
                   /\ NoGithubStats(p) =>
                        lb[k].totalScore =
                            RoundTwentieths(2 * wl * (Counted(p.stats.leetcode.easy)
                                                     + 2 * Counted(p.stats.leetcode.medium)
                                                     + 3 * Counted(p.stats.leetcode.hard)))
                   /\ NoLeetcodeStats(p) =>
                        lb[k].totalScore =
                            RoundTwentieths(wg * (2 * (IF c = 1030 THEN 565 ELSE Counted(c))
                                                  + 4 * Counted(p.stats.github.weeklyCommits)
                                                  + Counted(p.stats.github.monthlyCommits)))

\* C15 witness: a leaderboard served for a participant whose commit counts were
\* never set (undefined) and whose solved counts are 3/2/1: one entry, scored
\* round((3 + 2*2 + 1*3) * 0.6) = 6
C15_Witness ==
    /\ BoardServed
    /\ Len(resp.leaderboard) = 1
    /\ BoardParticipant(resp.leaderboard[1]).stats.github.totalCommits = Undefined
    /\ BoardParticipant(resp.leaderboard[1]).stats.leetcode
            = [total |-> 6, easy |-> 3, medium |-> 2, hard |-> 1]
    /\ resp.leaderboard[1].totalScore = 6

-----------------------------------------------------------------------------
(* Properties of the stored snapshots, checked under Spec *)

\* A participant without a snapshot holds the schema defaults
NoGithubSnapshot == NewParticipant("u1", "participant", 0).stats.github
NoLeetcodeSnapshot == NewParticipant("u1", "participant", 0).stats.leetcode

\* C14: in every room state, a participant whose username for a provider is
\* empty holds no snapshot for that provider.
C14_SnapshotOnlyWithUsername ==
    \A r \in RoomIds : \A i \in 1..Len(rooms[r].participants) :
        LET p == rooms[r].participants[i] IN
        /\ (p.profiles.github = "" => p.stats.github = NoGithubSnapshot)
        /\ (p.profiles.leetcode = "" => p.stats.leetcode = NoLeetcodeSnapshot)

-----------------------------------------------------------------------------
(* Properties of getUserStats, checked under SpecLeetcode *)

\* The mirrors whose answer is a success, for the answers of this call
Succeeding == {i \in Endpoints : endpointError(calc.arg[i]) = ""}
FirstSucceeding == CHOOSE i \in Succeeding : \A j \in Succeeding : i <= j

\* C17: getUserStats asks the mirrors in the order 1, 2, 3, each at most once;
\* it stops at the first mirror that succeeds, returns that mirror's normalized
\* answer and asks no later mirror.
C17_MirrorsInOrderUntilSuccess ==
    calc.fn = "getUserStats" =>
        LET asked == calc.out.requests
            last == IF Succeeding = {} THEN EndpointCount ELSE FirstSucceeding
        IN /\ asked = [k \in 1..last |-> k]
           /\ Succeeding # {} =>
                /\ ~calc.out.result.error
                /\ calc.out.result = normalize(calc.arg[FirstSucceeding].data)

\* C17 witness: mirror 1 fails, mirror 2 answers in the second naming
\* convention, mirror 3 would have answered too and is not asked
C17_Witness ==
    /\ calc.fn = "getUserStats"
    /\ endpointError(calc.arg[1]) # ""
    /\ calc.arg[2].data.solvedProblem = 9
    /\ calc.arg[3].data.totalSolved = 6
    /\ calc.out.requests = <<1, 2>>
    /\ calc.out.result.totalSolved = 9
    /\ calc.out.result.easySolved = 5
    /\ calc.out.result.hardSolved = 0

\* C18: when the three mirrors all fail, getUserStats does not raise and
\* returns error = true, zero solved counts, and a message that lists the
\* failure reason of each of the three mirrors in mirror order.
C18_AllMirrorsFailed ==
    (calc.fn = "getUserStats" /\ Succeeding = {}) =>
        /\ ~calc.out.raised
        /\ calc.out.result.error
        /\ calc.out.result.totalSolved = 0
        /\ calc.out.result.easySolved = 0
        /\ calc.out.result.mediumSolved = 0
        /\ calc.out.result.hardSolved = 0
        /\ Len(calc.out.result.message) = EndpointCount
        /\ \A i \in Endpoints :
                /\ calc.out.result.message[i].endpoint = i
                /\ calc.out.result.message[i].reason = endpointError(calc.arg[i])

\* C18 witness: a rejected fetch, a 404 and an error-shaped body
C18_Witness ==
    /\ calc.fn = "getUserStats"
    /\ calc.arg[1].kind = "transport"
    /\ calc.arg[2].status = 404
    /\ calc.arg[3].data.status = "error"
    /\ calc.out.result.error
    /\ calc.out.result.message =
            << [endpoint |-> 1, reason |-> "fetch failed"],
               [endpoint |-> 2, reason |-> "API responded with status: 404"],
               [endpoint |-> 3, reason |-> "user does not exist"] >>

-----------------------------------------------------------------------------
(* Properties of the commit-activity strategies, checked under SpecGithub *)

\* The accurate strategy succeeds when search and profile answer OK and the
\* events request is not rejected; the estimation when its profile answers OK
\* and its events request is not rejected
AccurateSucceeds == 
    /\ calc.arg.search = "ok"
    /\ calc.arg.profile = "ok"
    /\ calc.arg.events # "transport"
EstimateSucceeds == calc.arg.estProfile = "ok" /\ calc.arg.estEvents # "transport"

\* C16: GET /:username/stats calls the accurate strategy first; it calls the
\* estimation only after the accurate strategy returned unsupported and never
\* when the accurate strategy succeeded; when the accurate strategy failed and
\* the estimation succeeded, the method tag of the answer is not 'accurate'.
C16_AccurateThenEstimate ==
    calc.fn = "githubStats" =>
        /\ calc.out.strategies =
              IF AccurateSucceeds THEN <<"accurate">> ELSE <<"accurate", "estimate">>
        /\ (~AccurateSucceeds /\ EstimateSucceeds) =>
              /\ calc.out.body.method # "accurate"
              /\ calc.out.body.method = "estimate"
              /\ calc.out.body.stats.totalCommits > 0

\* C16 witness: search is rate limited, the estimation answers
C16_Witness ==
    /\ calc.fn = "githubStats"
    /\ calc.arg.search = "notok"
    /\ calc.arg.estProfile = "ok"
    /\ calc.arg.estEvents = "ok"
    /\ calc.out.strategies = <<"accurate", "estimate">>
    /\ calc.out.body.method = "estimate"
    /\ calc.out.body.stats.totalCommits = 80

\* A result that tells its caller the strategy was unsupported or failed
ReportsFailure(result) ==
    \/ "supported" \in DOMAIN result /\ ~result.supported
    \/ "error" \in DOMAIN result /\ result.error
    \/ "success" \in DOMAIN result /\ ~result.success

\* C19: when every network call of a commit-activity strategy fails, the
\* strategy does not raise and its result reports it as unsupported or failed.
C19_FailedStrategyReportsFailure ==
    /\ ( /\ calc.fn = "getContributionStatsGraphQL"
          /\ calc.arg.search # "ok" /\ calc.arg.profile # "ok" /\ calc.arg.events # "ok" )
        => (~calc.out.raised /\ ReportsFailure(calc.out.result))
    /\ ( /\ calc.fn = "getUserCommitStats"
          /\ calc.arg.estProfile # "ok" /\ calc.arg.estEvents # "ok" )
        => (~calc.out.raised /\ ReportsFailure(calc.out.result))

-----------------------------------------------------------------------------
(* The existence check before commit-activity acquisition, checked under Spec *)

\* The fixed snapshot update-stats stores for a username that does not exist
FallbackGithubSnapshot == [totalCommits |-> 50, weeklyCommits |-> 5, monthlyCommits |-> 20]

\* C20: in every refresh operation that acquires commit-activity stats for a
\* participant (update-stats, refresh-leaderboard, the sync of a profile
\* update), validateUsername runs before any strategy, and when the username
\* does not exist no strategy is invoked and the saved snapshot of the
\* participant is the fixed fallback snapshot.
C20_InvalidUsernameShortCircuits ==
    \A f \in io.fetches :
        f.ghCalled =>
            /\ f.chain = "full"
            /\ (~f.gh.exists /\ ~AnySaveFailed) =>
                  /\ f.gh = GhNotCalled
                  /\ Entry(rooms, f).stats.github = FallbackGithubSnapshot

-----------------------------------------------------------------------------
(* The sync of a profile update that names one provider, checked under Spec *)

\* C21: when PUT /api/users/:auth0Id carries the username of one provider
\* only, the sync asks that provider alone (and only for a non-empty
\* username); the other provider is not asked and its snapshot is not modified.
C21_SyncOnlyChangedProvider ==
    resp.op = "putUser" =>
        \A f \in io.fetches :
            /\ io.req.github = NoName =>
                  /\ ~f.ghCalled
                  /\ Entry(rooms, f).stats.github = Entry(io.before, f).stats.github
            /\ io.req.leetcode = NoName =>
                  /\ ~f.lcCalled
                  /\ Entry(rooms, f).stats.leetcode = Entry(io.before, f).stats.leetcode
            /\ f.ghCalled => Entry(io.before, f).profiles.github # "" \/ io.req.github # ""
            /\ f.lcCalled => Entry(io.before, f).profiles.leetcode # "" \/ io.req.leetcode # ""

-----------------------------------------------------------------------------
(* The field-name normalization of getUserStats, checked under SpecNormalize *)

\* C22: normalizing the normalized record again yields the same record, for
\* every response body over the recognised field names.
C22_NormalizeIdempotent ==
    calc.fn = "normalize" => calc.out.twice = calc.out.once

\* C22 witness: the counts come from the second and third naming convention,
\* the canonical total is 0 and the ranking is null
C22_Witness ==
    /\ calc.fn = "normalize"
    /\ calc.arg.totalSolved = 0
    /\ calc.arg.solvedProblem = 9
    /\ calc.arg.easySolved = Undefined
    /\ calc.arg.easy = Undefined
    /\ calc.arg.easy_solved = 4
    /\ calc.arg.ranking = Null
    /\ calc.arg.rank = Undefined
    /\ calc.out.once.totalSolved = 9
    /\ calc.out.once.easySolved = 4
    /\ calc.out.once.ranking = Null
    /\ calc.out.twice = calc.out.once

-----------------------------------------------------------------------------
(* The counts of the commit-activity strategies, checked under SpecCommits *)

\* C23: every result of the accurate and of the estimation strategy has
\* total, thisWeek and thisMonth >= 0 when the provider's counts are
\* non-negative, and the estimated total is the larger of recentActivity * 10
\* and floor(publicRepos * 8 * activityMultiplier * ageMultiplier), so it is
\* never below recentActivity * 10.
C23_CommitCountsNonNegative ==
    /\ calc.fn \in {"accurate", "estimate"} =>
          /\ calc.out.result.total >= 0
          /\ calc.out.result.thisWeek >= 0
          /\ calc.out.result.thisMonth >= 0
    /\ calc.fn = "estimate" =>
          LET r == calc.out.result
              activity10 == IF r.recentActivity > 0
                            THEN (IF r.recentActivity > 30 THEN 30 ELSE r.recentActivity)
                            ELSE 5
              age24 == IF r.accountAge > 48 THEN 48 ELSE r.accountAge
              scaled == (r.publicRepos * 8 * activity10 * age24) \div 240
          IN /\ r.total >= r.recentActivity * 10
             /\ r.total >= scaled
             /\ r.total \in {r.recentActivity * 10, scaled}

\* C23 witness: two pushes of 20 commits from an account of ten years with 40
\* repositories: both multipliers are capped and the scaled estimate wins
C23_Witness ==
    /\ calc.fn = "estimate"
    /\ calc.out.eventsOk
    /\ calc.arg.public_repos = 40
    /\ calc.arg.ageMonths = 120
    /\ calc.out.result.recentActivity = 40
    /\ calc.out.result.total = 1920
    /\ calc.out.result.thisWeek = 20
    /\ calc.out.result.thisMonth = 40

-----------------------------------------------------------------------------
(* Who changes a participant's data, checked under SpecAdmin *)

\* profiles, stats and statsLastUpdated of every participant entry of a room
ParticipantData(room) ==
    [ i \in 1..Len(room.participants) |->
        [ profiles |-> room.participants[i].profiles,
          stats |-> room.participants[i].stats,
          statsLastUpdated |-> room.participants[i].statsLastUpdated ] ]

\* C24: the leaderboard read, the room read, the settings update, start and
\* delete leave profiles, stats and statsLastUpdated of every participant of
\* every room as they were; the 1030-to-565 correction of the leaderboard is
\* in the response only.
C24_OnlyPipelineChangesParticipants ==
    resp.op \in {"leaderboard", "getRoom", "putRoom", "start", "delete"} =>
        /\ Len(rooms) = Len(io.before)
        /\ \A r \in RoomIds : ParticipantData(rooms[r]) = ParticipantData(io.before[r])

\* C24 witness: a leaderboard that shows 565 for a stored total of 1030
C24_Witness ==
    /\ resp.op = "leaderboard"
    /\ resp.status = 200
    /\ \E i \in 1..Len(resp.leaderboard) :
          LET e == resp.leaderboard[i]
          IN /\ e.stats.github.totalCommits = 565
             /\ rooms[resp.room].participants[e.idx].stats.github.totalCommits = 1030
             /\ io.before = rooms

-----------------------------------------------------------------------------
(* What refresh-leaderboard stores, checked under Spec *)

\* C25: after refresh-leaderboard succeeds, every active participant with a
\* non-empty GitHub username has a stored snapshot whose totalCommits,
\* weeklyCommits and monthlyCommits are the total, thisWeek and thisMonth the
\* estimation returned for that username; no stored count is undefined.
C25_RefreshStoresEstimate ==
    (resp.op = "refreshLeaderboard" /\ resp.success) =>
        \A f \in io.fetches :
            f.ghCalled =>
                /\ Entry(rooms, f).stats.github = GhSnapshot(f.gh.est)
                /\ Entry(rooms, f).stats.github.totalCommits # Undefined
                /\ Entry(rooms, f).stats.github.weeklyCommits # Undefined
                /\ Entry(rooms, f).stats.github.monthlyCommits # Undefined

-----------------------------------------------------------------------------
(* What update-stats stores from the estimation, checked under Spec *)

\* C26: in update-stats, when the username exists, the accurate strategy is
\* unsupported and the estimation returns a result, the stored totalCommits,
\* weeklyCommits and monthlyCommits are that result's total, thisWeek and
\* thisMonth, whatever their values, zero included.
C26_UpdateStoresEstimate ==
    (resp.op = "updateStats" /\ resp.success) =>
        \A f \in io.fetches :
            (f.ghCalled /\ f.gh.exists /\ ~f.gh.gql.supported) =>
                Entry(rooms, f).stats.github = GhSnapshot(f.gh.est)

-----------------------------------------------------------------------------
(* frontendStats in update-stats, checked under Spec *)

\* C27: in update-stats, when the request carries frontendStats for a
\* provider and the participant's username for it is non-empty, no call is
\* made to that provider and the saved snapshot is the client's value as sent;
\* when the username is empty the value is ignored and the snapshot is as it was.
C27_FrontendStatsStoredVerbatim ==
    (resp.op = "updateStats" /\ resp.success) =>
        \A f \in io.fetches :
            /\ io.front.github.present =>
                  /\ ~f.ghCalled
                  /\ f.gh = GhNotCalled
                  /\ Entry(rooms, f).stats.github =
                        IF Entry(rooms, f).profiles.github # ""
                        THEN io.front.github.value
                        ELSE Entry(io.before, f).stats.github
            /\ io.front.leetcode.present =>
                  /\ ~f.lcCalled
                  /\ f.lc = LcError
                  /\ Entry(rooms, f).stats.leetcode =
                        IF Entry(rooms, f).profiles.leetcode # ""
                        THEN io.front.leetcode.value
                        ELSE Entry(io.before, f).stats.leetcode

\* C27 witness: the client's GitHub counts are stored for a linked username
\* while its LeetCode counts are ignored for want of a username
C27_Witness ==
    /\ resp.op = "updateStats"
    /\ resp.success
    /\ io.front.github.present
    /\ io.front.leetcode.present
    /\ \E f \in io.fetches :
          /\ Entry(rooms, f).profiles.github = "alice"
          /\ Entry(rooms, f).profiles.leetcode = ""
          /\ Entry(rooms, f).stats.github.totalCommits = 1030
          /\ Entry(rooms, f).stats.github.weeklyCommits = 3
          /\ Entry(rooms, f).stats.leetcode.total = 0
          /\ resp.updates = {"github"}

-----------------------------------------------------------------------------
(* Participant entries of a room, checked under SpecLifecycle *)

\* C28: no room holds two participant entries with the same auth0Id, after
\* any sequence of create, join and leave; so the entry that find() locates
\* by auth0Id is the user's active entry.
C28_OneEntryPerUser ==
    \A r \in RoomIds :
        /\ \A i, j \in 1..Len(rooms[r].participants) :
              rooms[r].participants[i].auth0Id = rooms[r].participants[j].auth0Id => i = j
        /\ \A u \in Users :
              isParticipant(rooms[r], u) =>
                  rooms[r].participants[findParticipant(rooms[r], u)].isActive

-----------------------------------------------------------------------------
(* The capacity of a room, checked under SpecCapacity *)

\* C29: the active participants of a room never outnumber its
\* settings.maxParticipants, whatever the interleaving of join, leave and
\* settings-update requests, two joins that both read the room before either
\* saves included.
C29_NeverOverCapacity ==
    \A r \in RoomIds : participantCount(rooms[r]) <= rooms[r].settings.maxParticipants

-----------------------------------------------------------------------------
(* The life cycle of a room, checked under SpecLifecycle *)

\* C30: in every reachable state a room's isActive is false exactly when its
\* status is 'cancelled', after any sequence of create, join, leave (the
\* creator's included), settings update, start and delete.
C30_InactiveIffCancelled ==
    \A r \in RoomIds : (~rooms[r].isActive) <=> (rooms[r].status = "cancelled")

\* C30 witness: two rooms, both inactive and cancelled, the last of them by
\* the delete of a waiting room
C30_Witness ==
    /\ Len(rooms) = 2
    /\ resp.op \in {"leave", "delete"}
    /\ \E r \in RoomIds : rooms[r].status = "cancelled" /\ ~rooms[r].isActive
    /\ \E r \in RoomIds :
          /\ io.before # <<>>
          /\ io.before[r].status = "waiting"
          /\ rooms[r].status = "cancelled"
    /\ \A r \in RoomIds : ~rooms[r].isActive

====
